---- MODULE Spec2Model ----
(***************************************************************************)
(* A model of ParOptInteriorPoint (src/src/ParOptInteriorPoint.cpp).       *)
(*                                                                         *)
(* The module holds several specifications over one set of variables:      *)
(*   Spec      the driver: the control flow of one call of optimize(),     *)
(*             with the Problem's evaluations, the KKT factorizations and  *)
(*             the line search as inputs;                                  *)
(*   SpecData  the primal-dual variables of one solver: the start of       *)
(*             optimize(), computeStepAndUpdate() and computeComp() on     *)
(*             small vectors;                                              *)
(*   SpecFile  writeSolutionFile()/readSolutionFile() on a group of ranks; *)
(*   SpecLine  one call of lineSearch(), trial by trial;                   *)
(*   SpecRanks the collective steps of the major iterations on a group of  *)
(*             ranks: the broadcast tests, setUpKKTDiagSystem() and        *)
(*             evalMeritInitDeriv();                                       *)
(*   SpecStep  computeMaxStep() and scaleKKTStep() on one step, in exact   *)
(*             rational arithmetic;                                        *)
(*   SpecGmres a sequence of calls of setGMRESSubspaceSize().              *)
(*                                                                         *)
(* Real numbers are fixed-point integers.  In the driver one unit is       *)
(* 1e-8, with abs_res_tol set to 1e-3; in SpecData one unit is             *)
(* design_precision.                                                       *)
(***************************************************************************)
EXTENDS Integers, Sequences, FiniteSets, TLC

VARIABLES
  \* ---- the driver (optimize)
  pc,                  \* where optimize() stands
  k,                   \* the major iteration counter
  ret,                 \* the value optimize() returned (-1: it has not)
  converged,           \* the loop was left through the convergence break
  barrier_param,
  barrier_before,      \* barrier_param before the barrier update of this iteration
  res_norm,
  rel_function_test,
  line_search_test,
  no_merit_function_improvement,
  line_search_failed,
  line_fail,           \* the set of PAROPT_LINE_SEARCH_* flags
  qn_reset,            \* qn->reset() ended the last major iteration
  fobj,
  fobj_prev,
  alpha_x,
  alpha_z,
  alpha_xprev,
  alpha_zprev,
  inexact_newton_step,
  seq_linear_step,
  gmres_iters,
  factor_fail,         \* a factorization of this iteration failed
  step_applied,        \* computeStepAndUpdate ran in this iteration
  init_fail_obj,       \* fail_obj of the start of optimize()
  init_fail_gobj,      \* fail_gobj of the start of optimize()
  step_fail_obj,       \* fail_obj inside computeStepAndUpdate
  step_fail_gobj,      \* fail_gobj inside computeStepAndUpdate
  opts,                \* the options of the solver
  \* ---- the primal-dual variables
  dphase,              \* "idle": between calls of optimize(); "loop": inside
  ncalls,              \* the calls of optimize() so far
  nsteps,              \* the steps applied in this call
  prob,                \* the Problem: its flags, sizes and bounds
  starting_point_strategy,
  x, lb, ub, zl, zu,   \* design vectors
  z, s, t, zt,         \* dense constraint multipliers and slacks
  zw, sw,              \* sparse constraint multipliers and slacks
  complementarity,     \* what getComplementarity() returned: <<num, den>>
  \* ---- the solution file
  fphase,              \* "idle", "read": readSolutionFile returned, "resumed"
  fticks,              \* how often the solver's state has moved
  rstate,              \* by rank: barrier_param and the solver's vectors
  file,                \* the solution file, NoFile when there is none
  written,             \* rstate when the file was written by this solver
  before_read,         \* rstate when readSolutionFile was called
  read_ret,            \* by rank: what readSolutionFile returned
  \* ---- the line search
  lpc,                 \* "trial": in the loop, "tail": after it, "returned"
  ls,                  \* the arguments and options of this call
  j,                   \* the loop counter
  alpha,               \* the step length, 1.0 == AOne
  fail,                \* the set of PAROPT_LINE_SEARCH_* flags
  merit,
  best_merit,
  best_alpha,
  neval,               \* the calls of evalObjCon in this line search
  last_trial,          \* how the last trial ended
  alpha_tried,         \* the step length of the last trial
  re_fail_obj,         \* the evaluation at the best step length failed
  eval_alpha,          \* fobj and c hold the values at x + eval_alpha*px
  \* ---- the ranks
  ranks,               \* by rank: its position and its local values
  rdense,              \* dense_inequality of the Problem the ranks solve
  dec,                 \* by rank: <<barrier_converged, converged>> by iteration
  lus,                 \* by rank: what LAPACKdgetrf left, by call
  rhos,                \* by rank: rho_penalty_search after evalMeritInitDeriv
  rho_in,              \* on the root: rho_penalty_search and rho_hat, by call
  bcast_log,           \* the buffers MPI_Bcast sent from the root, in order
  reduce_in,           \* by rank: the buffers it gave to MPI_Reduce, in order
  \* ---- the scaling of the step
  spc,                 \* "step": the KKT step is computed, "scaled"
  kkt,                 \* the iterate, the KKT step, tau and the flags
  scaled,              \* what scaleKKTStep left: the step lengths and steps
  \* ---- the GMRES subspace
  gpc,                 \* "built", or "stopped" by a memory fault
  gmres_subspace_size,
  gmres_H,             \* the state of the pointer gmres_H
  gmres_W,             \* the state of the pointer gmres_W, the array's length
  live_vectors,        \* the subspace vectors created and not yet released
  glast,               \* what the last call of setGMRESSubspaceSize did
  glog                 \* the arguments of the calls so far

driverVars ==
  <<pc, k, ret, converged, barrier_param, barrier_before, res_norm,
    rel_function_test,
    line_search_test, no_merit_function_improvement, line_search_failed,
    line_fail, qn_reset, fobj, fobj_prev, alpha_x, alpha_z, alpha_xprev, alpha_zprev,
    inexact_newton_step, seq_linear_step, gmres_iters, factor_fail,
    step_applied, init_fail_obj, init_fail_gobj, step_fail_obj,
    step_fail_gobj, opts>>

dataVars ==
  <<dphase, ncalls, nsteps, prob, starting_point_strategy, x, lb, ub, zl, zu,
    z, s, t, zt, zw, sw, complementarity>>

fileVars == <<fphase, fticks, rstate, file, written, before_read, read_ret>>

lineVars ==
  <<lpc, ls, j, alpha, fail, merit, best_merit, best_alpha, neval, last_trial,
    alpha_tried, re_fail_obj, eval_alpha>>

rankVars == <<ranks, rdense, dec, lus, rhos, rho_in, bcast_log, reduce_in>>

stepVars == <<spc, kkt, scaled>>

gmresVars ==
  <<gpc, gmres_subspace_size, gmres_H, gmres_W, live_vectors, glast, glog>>

vars ==
  <<driverVars, dataVars, fileVars, lineVars, rankVars, stepVars, gmresVars>>

(***************************************************************************)
(* Bounds of the model.                                                    *)
(***************************************************************************)
\* The Problem's failure codes are 1..MaxFailCode; 0 is success.
MaxFailCode == 1

\* max_major_iters, as setMaxMajorIterations leaves it.
max_major_iters == 3

FailCodes == 0..MaxFailCode

(***************************************************************************)
(* Program constants.  barrier_param, res_norm, abs_res_tol and the        *)
(* complementarity are in units of 1e-8, with 1.0 == One; fobj and dm0 are *)
(* in units of function_precision.                                         *)
(***************************************************************************)
\* abs_res_tol, as setAbsOptimalityTol(1e-3) leaves it.
abs_res_tol == 100000

\* 1.0, the full step length.
One == 100000000

\* function_precision, the unit of fobj and dm0.
function_precision == 1

\* 1/rel_func_tol, as setRelFunctionTol(1e-3) leaves it.
rel_func_tol_inv == 1000

\* 1/monotone_barrier_fraction.
monotone_barrier_fraction_inv == 4

\* monotone_barrier_power, as setBarrierPower(2.0) leaves it.
monotone_barrier_power == 2

Max2(a, b) == IF a >= b THEN a ELSE b

Min2(a, b) == IF a < b THEN a ELSE b

Abs(a) == IF a < 0 THEN -a ELSE a

\* 0.1*abs_res_tol and 0.09999*abs_res_tol.
TenthTol == abs_res_tol \div 10

FloorTol == (9999 * abs_res_tol) \div 100000

(***************************************************************************)
(* The inputs of the driver: what the Problem and the linear algebra give. *)
(***************************************************************************)
InitBarrierParams == {5000, 40000}

ResNorms == {50000, 200000}

CompValues == {20000, 40000}

CompAffineValues == {0, 20000}

FObjValues == {2000, 2003}

\* The pairs (alpha_x, alpha_z) scaleKKTStep leaves.
AlphaPairs == {<<One, One>>, <<One \div 2, One>>}

\* dm0 as evalMeritInitDeriv leaves it.
MeritDerivs == {-1, 0, 2}

\* What computeKKTGMRESStep returns: -niters, 0 (no subspace), niters.
GMRESIters == {-2, 0, 2}

BarrierStrategies == {"MONOTONE", "MEHROTRA", "COMPLEMENTARITY_FRACTION"}

StartStrategies == {"NO_START_STRATEGY", "LEAST_SQUARES_MULTIPLIERS", "AFFINE_STEP"}

DefaultOpts ==
  [barrier_strategy |-> "MONOTONE", use_line_search |-> TRUE,
   use_hvec_product |-> FALSE, use_diag_hessian |-> FALSE,
   sequential_linear_method |-> FALSE, use_quasi_newton_update |-> TRUE,
   qn |-> TRUE]

\* The option settings the driver is run under.
DriverOpts ==
  {DefaultOpts,
   [DefaultOpts EXCEPT !.barrier_strategy = "MEHROTRA"],
   [DefaultOpts EXCEPT !.barrier_strategy = "COMPLEMENTARITY_FRACTION"],
   [DefaultOpts EXCEPT !.use_line_search = FALSE],
   [DefaultOpts EXCEPT !.use_hvec_product = TRUE],
   [DefaultOpts EXCEPT !.use_diag_hessian = TRUE],
   [DefaultOpts EXCEPT !.use_quasi_newton_update = FALSE],
   [DefaultOpts EXCEPT !.qn = FALSE]}

(***************************************************************************)
(* The line-search flags.                                                  *)
(***************************************************************************)
LineSearchFlags == {"SUCCESS", "FAILURE", "MIN_STEP", "MAX_ITERS", "NO_IMPROVEMENT"}

\* What lineSearch can return: SUCCESS or FAILURE, with MIN_STEP and
\* MAX_ITERS or'ed in.  NO_IMPROVEMENT needs m0 + function_precision <= merit
\* and merit + function_precision <= m0 at once.
LineSearchResults ==
  {f \in SUBSET LineSearchFlags :
     /\ ("SUCCESS" \in f) # ("FAILURE" \in f)
     /\ "NO_IMPROVEMENT" \notin f}

(***************************************************************************)
(* The driver's pure parts.                                                *)
(***************************************************************************)
\* pow(barrier_param, monotone_barrier_power) on the fixed-point grid.
RECURSIVE Pow(_, _)
Pow(mu, n) == IF n <= 1 THEN mu ELSE (mu * Pow(mu, n - 1)) \div One

\* The relative function test at the head of a major iteration.
RelFunctionTest(axp, azp, f, fprev) ==
  /\ axp = One
  /\ azp = One
  /\ Abs(f - fprev) * rel_func_tol_inv < Abs(fprev)

\* The line search test: consecutive iterations without improvement.
LineSearchTest(lst, no_improvement) ==
  IF no_improvement THEN lst + 1 ELSE 0

\* Whether the barrier problem has converged (monotone strategy).
BarrierConverged(kk, res, mu, rel, lst) ==
  /\ kk > 0
  /\ \/ res < 10 * mu
     \/ rel
     \/ lst >= 2

\* A monotone update that truncates at 0.4*abs_res_tol.
MonotoneBarrierUpdateHighFloor(mu) ==
  LET mu_frac == mu \div monotone_barrier_fraction_inv
      mu_pow == Pow(mu, monotone_barrier_power)
      new_barrier_param == IF mu_pow < mu_frac THEN mu_pow ELSE mu_frac
  IN  IF new_barrier_param < TenthTol THEN 4 * TenthTol ELSE new_barrier_param

\* The new barrier parameter of the monotone strategy.
MonotoneBarrierUpdate(mu) ==
  LET mu_frac == mu \div monotone_barrier_fraction_inv
      mu_pow == Pow(mu, monotone_barrier_power)
      new_barrier_param == IF mu_pow < mu_frac THEN mu_pow ELSE mu_frac
  IN  IF new_barrier_param < TenthTol THEN FloorTol ELSE new_barrier_param

\* The barrier parameter of the complementarity-fraction strategy.
CompFractionBarrier(comp) ==
  LET mu == comp \div monotone_barrier_fraction_inv
  IN  IF mu < TenthTol THEN TenthTol ELSE mu

\* The barrier parameter of the Mehrotra rule: sigma*comp, sigma = s1^3.
MehrotraBarrier(comp_affine, comp) ==
  LET mu == (((comp_affine * comp_affine) \div comp) * comp_affine) \div comp
  IN  IF mu < FloorTol THEN FloorTol ELSE mu

\* A convergence test that leaves out the test on the iteration counter.
ConvergenceTestAnyIteration(kk, mu, res, rel, lst) ==
  /\ mu <= TenthTol
  /\ \/ res < abs_res_tol
     \/ rel
     \/ lst >= 2

\* The convergence test of the major iteration.
ConvergenceTest(kk, mu, res, rel, lst) ==
  /\ kk > 0
  /\ mu <= TenthTol
  /\ \/ res < abs_res_tol
     \/ rel
     \/ lst >= 2

(***************************************************************************)
(* The driver.                                                             *)
(***************************************************************************)
\* The primal-dual variables, outside the specification of the driver.
ParkedData ==
  /\ dphase = "none"
  /\ ncalls = 0
  /\ nsteps = 0
  /\ prob = <<>>
  /\ starting_point_strategy = "NO_START_STRATEGY"
  /\ x = <<>> /\ lb = <<>> /\ ub = <<>> /\ zl = <<>> /\ zu = <<>>
  /\ z = <<>> /\ s = <<>> /\ t = <<>> /\ zt = <<>>
  /\ zw = <<>> /\ sw = <<>>
  /\ complementarity = <<0, 0>>

\* The solution file, outside its specification.
ParkedFile ==
  /\ fphase = "none"
  /\ fticks = 0
  /\ rstate = <<>>
  /\ file = <<>>
  /\ written = <<>>
  /\ before_read = <<>>
  /\ read_ret = <<>>

\* The line search, outside its specification.
ParkedLine ==
  /\ lpc = "none"
  /\ ls = <<>>
  /\ j = 0
  /\ alpha = 0
  /\ fail = {}
  /\ merit = 0
  /\ best_merit = 0
  /\ best_alpha = 0
  /\ neval = 0
  /\ last_trial = "none"
  /\ alpha_tried = 0
  /\ re_fail_obj = FALSE
  /\ eval_alpha = 0

\* The ranks, outside their specification.
ParkedRanks ==
  /\ ranks = <<>>
  /\ rdense = FALSE
  /\ dec = <<>>
  /\ lus = <<>>
  /\ rhos = <<>>
  /\ rho_in = <<>>
  /\ bcast_log = <<>>
  /\ reduce_in = <<>>

\* The fraction 1.
FracOne == <<1, 1>>

\* scaleKKTStep has not run.
NotScaled ==
  [max_x |-> FracOne, max_z |-> FracOne, alpha_x |-> FracOne,
   alpha_z |-> FracOne, ceq_step |-> 0, p |-> <<>>]

ParkedStep ==
  /\ spc = "none"
  /\ kkt = <<>>
  /\ scaled = NotScaled

\* What a call has done: the subspace vectors it released, the vectors of
\* the old subspace, whether it touched a vector index outside the old
\* allocation, and whether it deleted a buffer that was deleted before.
NoCall ==
  [m |-> 0, old |-> 0, released |-> 0, outside |-> FALSE,
   freed_twice |-> FALSE]

ParkedGmres ==
  /\ gpc = "none"
  /\ gmres_subspace_size = 0
  /\ gmres_H = "NULL"
  /\ gmres_W = [state |-> "NULL", len |-> 0]
  /\ live_vectors = 0
  /\ glast = NoCall
  /\ glog = <<>>

InitDriver ==
  /\ pc = "idle"
  /\ k = 0
  /\ ret = -1
  /\ converged = FALSE
  /\ barrier_param \in InitBarrierParams
  /\ barrier_before = barrier_param
  /\ res_norm = 0
  /\ rel_function_test = FALSE
  /\ line_search_test = 0
  /\ no_merit_function_improvement = FALSE
  /\ line_search_failed = FALSE
  /\ line_fail = {}
  /\ qn_reset = FALSE
  /\ fobj = 0
  /\ fobj_prev = 0
  /\ alpha_x = One
  /\ alpha_z = One
  /\ alpha_xprev = 0
  /\ alpha_zprev = 0
  /\ inexact_newton_step = FALSE
  /\ seq_linear_step = FALSE
  /\ gmres_iters = 0
  /\ factor_fail = FALSE
  /\ step_applied = FALSE
  /\ init_fail_obj = 0
  /\ init_fail_gobj = 0
  /\ step_fail_obj = 0
  /\ step_fail_gobj = 0
  /\ opts \in DriverOpts
  /\ ParkedData
  /\ ParkedFile
  /\ ParkedLine
  /\ ParkedRanks
  /\ ParkedStep
  /\ ParkedGmres

\* What optimize() returns when the initial gradient evaluation fails.
InitGradientFailureCode(fail_obj, fail_gobj) == fail_obj

\* optimize(), from its entry to the first major iteration.
OptimizeStart ==
  /\ pc = "idle"
  /\ \E fo \in FailCodes, fg \in FailCodes, f0 \in FObjValues,
        strategy \in StartStrategies, comp \in CompValues :
       /\ opts' = [opts EXCEPT !.sequential_linear_method = @ \/ ~opts.qn]
       /\ init_fail_obj' = fo
       /\ fobj' = f0
       /\ IF fo # 0
          THEN /\ pc' = "returned"
               /\ ret' = fo
               /\ init_fail_gobj' = 0
               /\ UNCHANGED barrier_param
          ELSE IF fg # 0
          THEN /\ pc' = "returned"
               /\ ret' = InitGradientFailureCode(fo, fg)
               /\ init_fail_gobj' = fg
               /\ UNCHANGED barrier_param
          ELSE /\ pc' = "head"
               /\ init_fail_gobj' = 0
               /\ UNCHANGED ret
               /\ barrier_param' =
                    IF strategy = "AFFINE_STEP" THEN comp ELSE barrier_param
  /\ k' = 0
  /\ fobj_prev' = 0
  /\ alpha_xprev' = 0
  /\ alpha_zprev' = 0
  /\ no_merit_function_improvement' = FALSE
  /\ line_search_test' = 0
  /\ line_search_failed' = FALSE
  /\ barrier_before' = barrier_param'
  /\ UNCHANGED <<converged, res_norm, rel_function_test, line_fail, qn_reset,
                 alpha_x, alpha_z, inexact_newton_step, seq_linear_step, gmres_iters,
                 factor_fail, step_applied, step_fail_obj, step_fail_gobj>>
  /\ UNCHANGED <<dataVars, fileVars, lineVars, rankVars,
                 stepVars, gmresVars>>

\* The head of a major iteration: the barrier update and the convergence
\* test, up to the break.
IterHead ==
  /\ pc = "head"
  /\ \/ /\ k >= max_major_iters
        /\ pc' = "done"
        /\ ret' = 0
        /\ UNCHANGED <<converged, barrier_param, barrier_before, res_norm,
                       rel_function_test, line_search_test>>
     \/ /\ k < max_major_iters
        /\ \E res1 \in ResNorms :
           LET rel == RelFunctionTest(alpha_xprev, alpha_zprev, fobj, fobj_prev)
               lst == LineSearchTest(line_search_test,
                                     no_merit_function_improvement)
               barrier_converged ==
                 /\ opts.barrier_strategy = "MONOTONE"
                 /\ BarrierConverged(k, res1, barrier_param, rel, lst)
           IN
           \E res2 \in (IF barrier_converged THEN ResNorms ELSE {res1}),
              comp \in (IF opts.barrier_strategy = "COMPLEMENTARITY_FRACTION"
                        THEN CompValues ELSE {0}) :
             LET mu == CASE opts.barrier_strategy = "MONOTONE" ->
                              IF barrier_converged
                              THEN MonotoneBarrierUpdate(barrier_param)
                              ELSE barrier_param
                         [] opts.barrier_strategy = "MEHROTRA" -> barrier_param
                         [] OTHER -> CompFractionBarrier(comp)
                 res == IF barrier_converged THEN res2 ELSE res1
                 conv == ConvergenceTest(k, mu, res, rel, lst)
             IN  /\ rel_function_test' = rel
                 /\ line_search_test' = lst
                 /\ barrier_param' = mu
                 /\ barrier_before' = barrier_param
                 /\ res_norm' = res
                 /\ converged' = conv
                 /\ pc' = IF conv THEN "done" ELSE "step"
                 /\ ret' = IF conv THEN 0 ELSE ret
  \* the locals of the loop body start afresh in every iteration
  /\ gmres_iters' = 0
  /\ inexact_newton_step' = FALSE
  /\ seq_linear_step' = FALSE
  /\ alpha_x' = One
  /\ alpha_z' = One
  /\ factor_fail' = FALSE
  /\ step_applied' = FALSE
  /\ step_fail_obj' = 0
  /\ step_fail_gobj' = 0
  /\ UNCHANGED <<k, no_merit_function_improvement, line_search_failed,
                 line_fail, qn_reset, fobj, fobj_prev, alpha_xprev,
                 alpha_zprev, init_fail_obj, init_fail_gobj, opts>>
  /\ UNCHANGED <<dataVars, fileVars, lineVars, rankVars,
                 stepVars, gmresVars>>

\* A fall-back to the sequential linear step after every failed line
\* search.
SequentialLinearStepOnFailure(o, failed) ==
  o.sequential_linear_method \/ failed

\* The quasi-Newton branch computes a sequential linear step (use_qn = 0).
SequentialLinearStep(o, failed) ==
  \/ o.sequential_linear_method
  \/ (failed /\ ~o.use_quasi_newton_update)

\* The step computation of a major iteration: the Krylov branch, the
\* quasi-Newton branch and scaleKKTStep.
ComputeStep ==
  /\ pc = "step"
  /\ \E nk_ready \in (IF opts.use_hvec_product THEN BOOLEAN ELSE {FALSE}) :
     \E gm \in (IF nk_ready THEN GMRESIters ELSE {0}),
        ff1 \in (IF nk_ready THEN BOOLEAN ELSE {FALSE}) :
       LET try_nk == opts.use_hvec_product /\ nk_ready
           iters == IF try_nk THEN gm ELSE 0
           inexact == try_nk /\ ~(iters < 0)
           use_seq == SequentialLinearStep(opts, line_search_failed)
           eval_hdiag == ~inexact /\ ~use_seq /\ opts.use_diag_hessian
       IN
       /\ gmres_iters' = iters
       /\ inexact_newton_step' = inexact
       /\ seq_linear_step' = (~inexact /\ use_seq)
       /\ fobj_prev' = fobj
       /\ \E hfail \in (IF eval_hdiag THEN FailCodes ELSE {0}),
             ff2 \in (IF inexact THEN {FALSE} ELSE BOOLEAN) :
            LET failed == (try_nk /\ ff1) \/ ff2 IN
            IF hfail # 0
            THEN /\ pc' = "returned"
                 /\ ret' = hfail
                 /\ factor_fail' = (try_nk /\ ff1)
                 /\ UNCHANGED <<barrier_param, alpha_x, alpha_z, line_fail,
                                no_merit_function_improvement,
                                line_search_failed, k, alpha_xprev, alpha_zprev>>
            ELSE /\ pc' = "search"
                 /\ factor_fail' = failed
                 /\ \E ap \in AlphaPairs :
                      /\ alpha_x' = ap[1]
                      /\ alpha_z' = ap[2]
                 /\ IF ~inexact /\ opts.barrier_strategy = "MEHROTRA"
                    THEN \E ca \in CompAffineValues, comp \in CompValues :
                           barrier_param' = MehrotraBarrier(ca, comp)
                    ELSE UNCHANGED barrier_param
                 /\ line_fail' = {"FAILURE"}
                 /\ UNCHANGED <<ret, no_merit_function_improvement,
                                line_search_failed, k, alpha_xprev, alpha_zprev>>
  /\ UNCHANGED <<converged, barrier_before, res_norm, rel_function_test,
                 line_search_test, fobj, init_fail_obj, init_fail_gobj, opts,
                 step_applied, step_fail_obj, step_fail_gobj, qn_reset>>
  /\ UNCHANGED <<dataVars, fileVars, lineVars, rankVars,
                 stepVars, gmresVars>>

\* What computeStepAndUpdate's evaluations give: fail_obj (when the
\* objective is evaluated), fail_gobj (unless fail_obj returned first) and
\* the new fobj.
StepOutcomes(eval_obj_con) ==
  {o \in [fail_obj : FailCodes, fail_gobj : FailCodes, fobj : FObjValues] :
     /\ ~eval_obj_con => (o.fail_obj = 0 /\ o.fobj = fobj)
     /\ o.fail_obj # 0 => o.fail_gobj = 0}

\* A count of NO_IMPROVEMENT alone.
NoMeritFunctionImprovementFlagOnly(lf) == "NO_IMPROVEMENT" \in lf

\* The flags that count as no improvement of the merit function.
NoMeritFunctionImprovement(lf) ==
  \/ "NO_IMPROVEMENT" \in lf
  \/ "MIN_STEP" \in lf
  \/ "FAILURE" \in lf

\* No change in the objective over a skipped line search.
NoObjectiveChange(fprev, f) ==
  /\ fprev + function_precision <= f
  /\ f + function_precision <= fprev

\* qn->reset() at the end of a major iteration.
ResetQuasiNewton(o, lf) ==
  o.qn /\ o.use_quasi_newton_update /\ "FAILURE" \in lf

\* The end of a major iteration: the flags kept for the next one.
EndIteration(lf, applied, o, ap, inexact, seq, ffail) ==
  /\ line_fail' = lf
  /\ step_applied' = applied
  /\ step_fail_obj' = o.fail_obj
  /\ step_fail_gobj' = o.fail_gobj
  /\ fobj' = o.fobj
  /\ alpha_x' = ap[1]
  /\ alpha_z' = ap[2]
  /\ inexact_newton_step' = inexact
  /\ seq_linear_step' = seq
  /\ factor_fail' = ffail
  /\ no_merit_function_improvement' = NoMeritFunctionImprovement(lf)
  /\ line_search_failed' = ("FAILURE" \in lf)
  /\ qn_reset' = ResetQuasiNewton(opts, lf)
  /\ alpha_xprev' = ap[1]
  /\ alpha_zprev' = ap[2]
  /\ k' = k + 1
  /\ pc' = "head"

NoStep == [fail_obj |-> 0, fail_gobj |-> 0, fobj |-> fobj]

\* The line search of a major iteration, the update of the variables and
\* the bookkeeping that ends the iteration.
LineSearchAndUpdate ==
  /\ pc = "search"
  /\ LET ap0 == <<alpha_x, alpha_z>> IN
     \/ /\ ~opts.use_line_search
        /\ \E o \in StepOutcomes(TRUE) :
             EndIteration({"FAILURE"}, TRUE, o, ap0, inexact_newton_step,
                          seq_linear_step, factor_fail)
     \/ /\ opts.use_line_search
        /\ \E dm0 \in MeritDerivs :
             IF dm0 >= 0 /\ dm0 <= function_precision
             THEN \E o \in StepOutcomes(TRUE) :
                    EndIteration(IF NoObjectiveChange(fobj_prev, o.fobj)
                                 THEN {"NO_IMPROVEMENT"} ELSE {"FAILURE"},
                                 TRUE, o, ap0, inexact_newton_step,
                                 seq_linear_step, factor_fail)
             ELSE \E ap \in (IF dm0 >= 0 THEN AlphaPairs ELSE {ap0}),
                     dm1 \in (IF dm0 >= 0 THEN MeritDerivs ELSE {dm0}),
                     ff \in (IF dm0 >= 0 THEN BOOLEAN ELSE {FALSE}) :
                    LET inexact == inexact_newton_step /\ ~(dm0 >= 0)
                        seq == seq_linear_step \/ (dm0 >= 0)
                        ffail == factor_fail \/ ff
                    IN  IF dm1 >= 0
                        THEN EndIteration({"FAILURE"}, FALSE, NoStep, ap,
                                          inexact, seq, ffail)
                        ELSE \E lf \in LineSearchResults, f \in FObjValues :
                               IF "FAILURE" \in lf
                               THEN EndIteration(lf, FALSE,
                                                 [NoStep EXCEPT !.fobj = f],
                                                 ap, inexact, seq, ffail)
                               ELSE \E fg \in FailCodes :
                                      EndIteration(lf, TRUE,
                                        [fail_obj |-> 0, fail_gobj |-> fg,
                                         fobj |-> f],
                                        ap, inexact, seq, ffail)
  /\ UNCHANGED <<ret, converged, barrier_param, barrier_before, res_norm,
                 rel_function_test, line_search_test, fobj_prev, gmres_iters,
                 init_fail_obj, init_fail_gobj, opts>>
  /\ UNCHANGED <<dataVars, fileVars, lineVars, rankVars,
                 stepVars, gmresVars>>

Next ==
  \/ OptimizeStart
  \/ IterHead
  \/ ComputeStep
  \/ LineSearchAndUpdate

Spec == InitDriver /\ [][Next]_vars

(***************************************************************************)
(* Properties of the driver.                                               *)
(***************************************************************************)
\* C1: when the initial evalObjCon or the initial evalObjConGradient fails,
\* optimize() has returned, and what it returned is the Problem's nonzero
\* failure code.
StartupFailureReturnsFailureCode ==
  (init_fail_obj # 0 \/ init_fail_gobj # 0) =>
    /\ pc = "returned"
    /\ ret # 0
    /\ ret = (IF init_fail_obj # 0 THEN init_fail_obj ELSE init_fail_gobj)

\* C2: when an evaluation inside computeStepAndUpdate fails, optimize() has
\* returned the Problem's nonzero failure code instead of ending the major
\* iteration.
StepEvaluationFailureAborts ==
  (step_fail_obj # 0 \/ step_fail_gobj # 0) =>
    /\ pc = "returned"
    /\ ret # 0
    /\ ret = (IF step_fail_obj # 0 THEN step_fail_obj ELSE step_fail_gobj)

\* C3: the loop is left as converged at iteration k exactly when k > 0,
\* barrier_param <= 0.1*abs_res_tol and one of res_norm < abs_res_tol, the
\* relative function test, line_search_test >= 2 holds: a loop left as
\* converged satisfies the condition, and an iteration that goes on to
\* compute a step does not.
ConvergedIffCondition ==
  LET cond == /\ k > 0
              /\ 10 * barrier_param <= abs_res_tol
              /\ \/ res_norm < abs_res_tol
                 \/ rel_function_test
                 \/ line_search_test >= 2
  IN  /\ (pc = "done" /\ converged) => cond
      /\ (pc = "step") => ~cond
      /\ converged => pc = "done"

\* C3 (witness): the loop was left as converged on the line search test
\* alone.
ConvergedOnLineSearchTest ==
  /\ pc = "done"
  /\ converged
  /\ k > 0
  /\ line_search_test >= 2
  /\ res_norm >= abs_res_tol
  /\ ~rel_function_test

\* C9: after a major iteration in which a factorization failed, the
\* iteration counts as a line search failure and no step was applied.
FactorFailureIsLineSearchFailure ==
  (pc = "head" /\ factor_fail) =>
    /\ line_search_failed
    /\ ~step_applied

\* C13 (as stated): under the monotone strategy the barrier update of a
\* major iteration never increases barrier_param, whatever positive value
\* it started from.
MonotoneBarrierNeverIncreases ==
  opts.barrier_strategy = "MONOTONE" => barrier_param <= barrier_before

\* C13 (amended): under the monotone strategy the barrier update never
\* increases a barrier_param that is at least 0.09999*abs_res_tol, and
\* never takes it below that value; a barrier_param below
\* 0.09999*abs_res_tol is raised to 0.09999*abs_res_tol by the first
\* update.
MonotoneBarrierFloored ==
  opts.barrier_strategy = "MONOTONE" =>
    /\ barrier_before >= FloorTol =>
         /\ barrier_param <= barrier_before
         /\ barrier_param >= FloorTol
    /\ barrier_before < FloorTol => barrier_param \in {barrier_before, FloorTol}

\* C13 (witness): the barrier update of a major iteration of the monotone
\* strategy has raised a barrier_param that was below 0.09999*abs_res_tol.
MonotoneBarrierRaisedToFloor ==
  /\ opts.barrier_strategy = "MONOTONE"
  /\ pc \in {"step", "done"}
  /\ k > 0
  /\ barrier_before < FloorTol
  /\ barrier_param = FloorTol

KrylovWithoutDescentFallsBack ==
  (pc = "search" /\ opts.use_hvec_product /\ gmres_iters <= 0) =>
    ~inexact_newton_step

FailureRecordedIffNoStepApplied ==
  (pc = "head" /\ k > 0) =>
    /\ ("FAILURE" \in line_fail) <=> ~step_applied
    /\ step_applied =>
         /\ ~line_search_failed
         /\ ~qn_reset
         /\ ~no_merit_function_improvement

(***************************************************************************)
(* The primal-dual variables (SpecData).  Lengths and multipliers are on   *)
(* a grid of a quarter of design_precision, and the scale is compressed:   *)
(* 1.0 is OneD grid units.                                                 *)
(***************************************************************************)
\* The sizes of the Problem.
nvars == 2

ncon == 1

nwcon_max == 1

\* The steps applied in one call of optimize(), and the calls.
MaxSteps == 1

MaxCalls == 2

\* design_precision.
design_precision == 4

\* 1.0.
OneD == 32

\* max_bound_val, as the constructor's max_bound_value leaves it.
max_bound_val == 64

\* start_affine_multiplier_min.
start_affine_multiplier_min == 8

\* penalty_gamma[i], as setPenaltyGamma leaves it.
penalty_gamma == 64

\* rel_bound_barrier, as setRelativeBarrier(2.0) leaves it.
rel_bound_barrier == 2

\* rel_bound = 0.001*barrier_param, with barrier_param = 250.
RelBound == OneD \div 4

RelBoundTimes(delta) == (RelBound * delta) \div OneD

ConstVec(n, v) == [i \in 1..n |-> v]

\* The pairs (lb, ub) the Problem gives: no bound, a lower bound, bounds
\* closer than 2*design_precision, ordinary bounds, inconsistent bounds, an
\* upper bound.
BoundChoices ==
  <<<<-max_bound_val, max_bound_val>>, <<0, max_bound_val>>,
    <<0, design_precision>>, <<0, 4 * design_precision>>,
    <<4 * design_precision, 0>>, <<-max_bound_val, 4 * design_precision>>>>

BoundFlags == {<<TRUE, TRUE>>, <<TRUE, FALSE>>, <<FALSE, TRUE>>, <<FALSE, FALSE>>}

ConstraintKinds ==
  {<<TRUE, TRUE, nwcon_max>>, <<FALSE, FALSE, nwcon_max>>, <<TRUE, FALSE, 0>>}

\* The Problems the solver is built on.
Problems ==
  {[use_lower |-> bf[1], use_upper |-> bf[2], dense_inequality |-> ck[1],
    sparse_inequality |-> ck[2], nwcon |-> ck[3], boff |-> off] :
     bf \in BoundFlags, ck \in ConstraintKinds, off \in 0..(Len(BoundChoices) - 1)}

\* alpha*p of one component of a step.
StepValues == {-2 * design_precision, design_precision}

\* The least-squares estimates of z, before they are checked.
LeastSquaresValues == {-3 * OneD, -8, 16}

\* Problem::getVarsAndBounds.
ProbBounds(p, i) == BoundChoices[((p.boff + i) % Len(BoundChoices)) + 1]

ProbLower(p) == [i \in 1..nvars |-> ProbBounds(p, i)[1]]

ProbUpper(p) == [i \in 1..nvars |-> ProbBounds(p, i)[2]]

ProbX(p) == ConstVec(nvars, 2 * design_precision)

\* initAndCheckDesignAndBounds: the bounds of variable i.
CheckedBounds(p, i) ==
  LET l0 == ProbLower(p)[i]
      u0 == ProbUpper(p)[i]
      fix == /\ p.use_lower /\ p.use_upper
             /\ l0 > -max_bound_val /\ u0 < max_bound_val
             /\ l0 >= u0
      l1 == IF fix THEN (l0 + u0) \div 2 - RelBound \div 2 ELSE l0
      u1 == IF fix THEN l1 + RelBound ELSE u0
  IN  <<l1, u1>>

\* initAndCheckDesignAndBounds: the value of variable i.
CheckedX(p, i) ==
  LET l1 == CheckedBounds(p, i)[1]
      u1 == CheckedBounds(p, i)[2]
      delta == IF l1 > -max_bound_val /\ u1 < max_bound_val
               THEN u1 - l1 ELSE OneD
      x0 == ProbX(p)[i]
      x1 == IF l1 > -max_bound_val /\ x0 < l1 + RelBoundTimes(delta)
            THEN l1 + RelBoundTimes(delta) ELSE x0
      x2 == IF u1 < max_bound_val /\ x1 > u1 - RelBoundTimes(delta)
            THEN u1 - RelBoundTimes(delta) ELSE x1
  IN  IF p.use_lower /\ p.use_upper THEN x2 ELSE x0

\* initAndCheckDesignAndBounds: x, lb, ub from the Problem, checked, and
\* the bound multipliers zeroed where the bound is out of range.
initAndCheckDesignAndBounds(p, zlvals, zuvals) ==
  LET lbvals == [i \in 1..nvars |-> CheckedBounds(p, i)[1]]
      ubvals == [i \in 1..nvars |-> CheckedBounds(p, i)[2]]
  IN  [x |-> [i \in 1..nvars |-> CheckedX(p, i)],
       lb |-> lbvals,
       ub |-> ubvals,
       zl |-> [i \in 1..nvars |->
                 IF lbvals[i] <= -max_bound_val THEN 0 ELSE zlvals[i]],
       zu |-> [i \in 1..nvars |->
                 IF ubvals[i] >= max_bound_val THEN 0 ELSE zuvals[i]]]

\* computeStep on one component: the step, the lower clip, the upper clip.
computeStep(xval, pval, has_lower, lbval, has_upper, ubval) ==
  LET x1 == xval + pval
      x2 == IF has_lower /\ x1 <= lbval + design_precision
            THEN lbval + design_precision ELSE x1
  IN  IF has_upper /\ x2 + design_precision >= ubval
      THEN ubval - design_precision ELSE x2

\* computeStepVec(xvec, alpha, pvec, lower, NULL, upper, NULL).
computeStepVec(xvec, pval, lower, upper) ==
  [i \in DOMAIN xvec |->
     computeStep(xvec[i], pval, TRUE, lower[i], TRUE, upper[i])]

\* computeStepVec(vec, alpha, pvec, NULL, &zero, NULL, NULL).
computeStepZero(vec, pval) ==
  [i \in DOMAIN vec |-> computeStep(vec[i], pval, TRUE, 0, FALSE, 0)]

\* max2(start_affine_multiplier_min, fabs(v + p)).
AffineStart(v, pval) == Max2(start_affine_multiplier_min, Abs(v + pval))

\* The multipliers and slacks of the solver, as a record.
Multipliers ==
  [z |-> z, s |-> s, t |-> t, zt |-> zt, zw |-> zw, sw |-> sw,
   zl |-> zl, zu |-> zu]

\* The least-squares estimate of z[i], kept or replaced by 1.0.
LeastSquaresKeep(p, zval, info) ==
  IF info # 0 THEN OneD
  ELSE IF p.dense_inequality
  THEN (IF 100 * zval < OneD \/ zval > penalty_gamma THEN OneD ELSE zval)
  ELSE (IF zval < -penalty_gamma \/ zval > penalty_gamma THEN OneD ELSE zval)

\* A start-up that applies the least-squares strategy whatever the setting.
StartingPointAlwaysLeastSquares(strategy, p, m, lbvals, ubvals, pval, zls, info) ==
  [z |-> [i \in 1..ncon |-> LeastSquaresKeep(p, zls, info)],
   s |-> ConstVec(ncon, OneD),
   t |-> ConstVec(ncon, OneD),
   zt |-> ConstVec(ncon, OneD),
   zw |-> ConstVec(p.nwcon, OneD),
   sw |-> ConstVec(p.nwcon, OneD),
   zl |-> [i \in 1..nvars |-> IF lbvals[i] <= -max_bound_val THEN 0 ELSE OneD],
   zu |-> [i \in 1..nvars |-> IF ubvals[i] >= max_bound_val THEN 0 ELSE OneD]]

\* The starting point strategy of optimize(): the multipliers and slacks
\* the first major iteration starts from.
StartingPoint(strategy, p, m, lbvals, ubvals, pval, zls, info) ==
  CASE strategy = "AFFINE_STEP" ->
         [z |-> [i \in 1..ncon |-> AffineStart(m.z[i], pval)],
          s |-> IF p.dense_inequality
                THEN [i \in 1..ncon |-> AffineStart(m.s[i], pval)] ELSE m.s,
          t |-> IF p.dense_inequality
                THEN [i \in 1..ncon |-> AffineStart(m.t[i], pval)] ELSE m.t,
          zt |-> IF p.dense_inequality
                 THEN [i \in 1..ncon |-> AffineStart(m.zt[i], pval)] ELSE m.zt,
          zw |-> [i \in 1..p.nwcon |-> AffineStart(m.zw[i], pval)],
          sw |-> IF p.sparse_inequality
                 THEN [i \in 1..p.nwcon |-> AffineStart(m.sw[i], pval)]
                 ELSE m.sw,
          zl |-> [i \in 1..nvars |->
                    IF p.use_lower /\ lbvals[i] > -max_bound_val
                    THEN AffineStart(m.zl[i], pval) ELSE m.zl[i]],
          zu |-> [i \in 1..nvars |->
                    IF p.use_upper /\ ubvals[i] < max_bound_val
                    THEN AffineStart(m.zu[i], pval) ELSE m.zu[i]]]
    [] strategy = "LEAST_SQUARES_MULTIPLIERS" ->
         [z |-> [i \in 1..ncon |-> LeastSquaresKeep(p, zls, info)],
          s |-> ConstVec(ncon, OneD),
          t |-> ConstVec(ncon, OneD),
          zt |-> ConstVec(ncon, OneD),
          zw |-> ConstVec(p.nwcon, OneD),
          sw |-> ConstVec(p.nwcon, OneD),
          zl |-> [i \in 1..nvars |->
                    IF lbvals[i] <= -max_bound_val THEN 0 ELSE OneD],
          zu |-> [i \in 1..nvars |->
                    IF ubvals[i] >= max_bound_val THEN 0 ELSE OneD]]
    [] OTHER -> m

\* The bound multipliers' part of r_x in computeKKTRes: zl - zu.
BoundTermOfRx(p, zlvals, zuvals) ==
  [i \in 1..nvars |->
     (IF p.use_lower THEN zlvals[i] ELSE 0) - (IF p.use_upper THEN zuvals[i] ELSE 0)]

\* The design vectors, multipliers and slacks computeComp reads.
Data ==
  [x |-> x, lb |-> lb, ub |-> ub, zl |-> zl, zu |-> zu,
   z |-> z, s |-> s, t |-> t, zt |-> zt]

\* computeComp: the loop over the lower bounds, <<product, sum>>.
RECURSIVE LowerBoundComp(_, _, _)
LowerBoundComp(i, acc, d) ==
  IF i > nvars THEN acc
  ELSE LowerBoundComp(i + 1,
         IF d.lb[i] > -max_bound_val
         THEN <<acc[1] + d.zl[i] * (d.x[i] - d.lb[i]), acc[2] + 1>>
         ELSE acc,
         d)

\* computeComp: the loop over the upper bounds.
RECURSIVE UpperBoundComp(_, _, _)
UpperBoundComp(i, acc, d) ==
  IF i > nvars THEN acc
  ELSE UpperBoundComp(i + 1,
         IF d.ub[i] < max_bound_val
         THEN <<acc[1] + d.zu[i] * (d.ub[i] - d.x[i]), acc[2] + 1>>
         ELSE acc,
         d)

\* computeComp: the loop over the dense constraints.
RECURSIVE DenseComp(_, _, _)
DenseComp(i, acc, d) ==
  IF i > ncon THEN acc
  ELSE DenseComp(i + 1,
         <<acc[1] + d.s[i] * d.z[i] + d.t[i] * d.zt[i], acc[2] + 2>>, d)

\* No value returned by getComplementarity().
NoComp == <<0, 0>>

\* A quotient that counts the sparse constraints in the sum.
CompQuotientCountingSparse(p, bnd, dns) ==
  LET sum == bnd[2] + dns[2] + p.nwcon
  IN  IF sum # 0
      THEN <<bnd[1] + rel_bound_barrier * dns[1], rel_bound_barrier * sum>>
      ELSE <<0, 1>>

\* computeComp: comp = (product_bounds/rel_bound_barrier + product_dense)/sum
\* when sum is not zero, else 0; as the fraction <<numerator, denominator>>.
CompQuotient(p, bnd, dns) ==
  LET sum == bnd[2] + dns[2]
  IN  IF sum # 0
      THEN <<bnd[1] + rel_bound_barrier * dns[1], rel_bound_barrier * sum>>
      ELSE <<0, 1>>

\* computeComp.
computeComp(p, d) ==
  LET a1 == IF p.use_lower THEN LowerBoundComp(1, <<0, 0>>, d) ELSE <<0, 0>>
      a2 == IF p.use_upper THEN UpperBoundComp(1, a1, d) ELSE a1
      dn == IF p.dense_inequality THEN DenseComp(1, <<0, 0>>, d) ELSE <<0, 0>>
  IN  CompQuotient(p, a2, dn)

\* The driver, outside its specification.
ParkedDriver ==
  /\ pc = "none"
  /\ k = 0
  /\ ret = -1
  /\ converged = FALSE
  /\ barrier_param = 0
  /\ barrier_before = 0
  /\ res_norm = 0
  /\ rel_function_test = FALSE
  /\ line_search_test = 0
  /\ no_merit_function_improvement = FALSE
  /\ line_search_failed = FALSE
  /\ line_fail = {}
  /\ qn_reset = FALSE
  /\ fobj = 0
  /\ fobj_prev = 0
  /\ alpha_x = One
  /\ alpha_z = One
  /\ alpha_xprev = 0
  /\ alpha_zprev = 0
  /\ inexact_newton_step = FALSE
  /\ seq_linear_step = FALSE
  /\ gmres_iters = 0
  /\ factor_fail = FALSE
  /\ step_applied = FALSE
  /\ init_fail_obj = 0
  /\ init_fail_gobj = 0
  /\ step_fail_obj = 0
  /\ step_fail_gobj = 0
  /\ opts = DefaultOpts

\* The solver as its constructor leaves it.
InitData ==
  /\ prob \in Problems
  /\ \E init \in {initAndCheckDesignAndBounds(prob, ConstVec(nvars, 0),
                                                ConstVec(nvars, 0))} :
         /\ x = init.x
         /\ lb = init.lb
         /\ ub = init.ub
  /\ zl = ConstVec(nvars, OneD)
  /\ zu = ConstVec(nvars, OneD)
  /\ zw = ConstVec(prob.nwcon, OneD)
  /\ sw = ConstVec(prob.nwcon, OneD)
  /\ z = ConstVec(ncon, OneD)
  /\ s = ConstVec(ncon, OneD)
  /\ zt = ConstVec(ncon, OneD)
  /\ t = ConstVec(ncon, OneD)
  /\ starting_point_strategy = "LEAST_SQUARES_MULTIPLIERS"
  /\ dphase = "idle"
  /\ ncalls = 0
  /\ nsteps = 0
  /\ complementarity = NoComp
  /\ ParkedDriver
  /\ ParkedFile
  /\ ParkedLine
  /\ ParkedRanks
  /\ ParkedStep
  /\ ParkedGmres

\* optimize(), from its entry to the first major iteration, on the
\* primal-dual variables; setStartingPointStrategy may come before it.
DataOptimizeStart ==
  /\ dphase = "idle"
  /\ ncalls < MaxCalls
  /\ \E strategy \in StartStrategies, ok \in BOOLEAN :
     \E pval \in (IF ok /\ strategy = "AFFINE_STEP" THEN StepValues ELSE {0}),
        zls \in (IF ok /\ strategy = "LEAST_SQUARES_MULTIPLIERS"
                 THEN LeastSquaresValues ELSE {0}),
        info \in (IF ok /\ strategy = "LEAST_SQUARES_MULTIPLIERS"
                  THEN {0, 1} ELSE {0}) :
       \E init \in {initAndCheckDesignAndBounds(prob, zl, zu)} :
       \E m0 \in {[Multipliers EXCEPT !.zl = init.zl, !.zu = init.zu]} :
       \E m1 \in {IF ok
                   THEN StartingPoint(strategy, prob, m0, init.lb, init.ub,
                                      pval, zls, info)
                   ELSE m0} :
           /\ starting_point_strategy' = strategy
           /\ x' = init.x
           /\ lb' = init.lb
           /\ ub' = init.ub
           /\ zl' = m1.zl
           /\ zu' = m1.zu
           /\ z' = m1.z
           /\ s' = m1.s
           /\ t' = m1.t
           /\ zt' = m1.zt
           /\ zw' = m1.zw
           /\ sw' = m1.sw
           /\ dphase' = IF ok THEN "loop" ELSE "idle"
  /\ ncalls' = ncalls + 1
  /\ nsteps' = 0
  /\ complementarity' = NoComp
  /\ UNCHANGED <<prob, driverVars, fileVars, lineVars, rankVars,
                 stepVars, gmresVars>>

\* computeStepAndUpdate on the primal-dual variables.
DataComputeStepAndUpdate ==
  /\ dphase = "loop"
  /\ nsteps < MaxSteps
  \* alpha*p: dprimal on x and the slacks, ddual on the multipliers
  /\ \E dprimal \in StepValues, ddual \in StepValues :
       /\ zw' = IF prob.nwcon > 0 THEN computeStepZero(zw, ddual) ELSE zw
       /\ sw' = IF prob.nwcon > 0 /\ prob.sparse_inequality
                THEN computeStepZero(sw, dprimal) ELSE sw
       /\ zl' = IF prob.use_lower THEN computeStepZero(zl, ddual) ELSE zl
       /\ zu' = IF prob.use_upper THEN computeStepZero(zu, ddual) ELSE zu
       /\ z' = computeStepZero(z, ddual)
       /\ s' = IF prob.dense_inequality THEN computeStepZero(s, dprimal) ELSE s
       /\ t' = IF prob.dense_inequality THEN computeStepZero(t, dprimal) ELSE t
       /\ zt' = IF prob.dense_inequality THEN computeStepZero(zt, ddual) ELSE zt
       /\ x' = computeStepVec(x, dprimal, lb, ub)
  /\ nsteps' = nsteps + 1
  /\ complementarity' = NoComp
  /\ UNCHANGED <<dphase, ncalls, prob, starting_point_strategy, lb, ub,
                 driverVars, fileVars, lineVars, rankVars,
                 stepVars, gmresVars>>

\* optimize() returns.
DataOptimizeReturn ==
  /\ dphase = "loop"
  /\ dphase' = "idle"
  /\ complementarity' = NoComp
  /\ UNCHANGED <<ncalls, nsteps, prob, starting_point_strategy, x, lb, ub,
                 zl, zu, z, s, t, zt, zw, sw, driverVars, fileVars, lineVars, rankVars,
                 stepVars, gmresVars>>

\* getComplementarity().
DataGetComplementarity ==
  /\ complementarity = NoComp
  /\ complementarity' = computeComp(prob, Data)
  /\ UNCHANGED <<dphase, ncalls, nsteps, prob, starting_point_strategy, x,
                 lb, ub, zl, zu, z, s, t, zt, zw, sw, driverVars, fileVars, lineVars, rankVars,
                 stepVars, gmresVars>>

NextData ==
  \/ DataOptimizeStart
  \/ DataComputeStepAndUpdate
  \/ DataOptimizeReturn
  \/ DataGetComplementarity

SpecData == InitData /\ [][NextData]_vars

(***************************************************************************)
(* Properties of the primal-dual variables.                                *)
(***************************************************************************)
\* C4: after a step applied by computeStepAndUpdate the iterate is strictly
\* interior: the slacks and multipliers of the dense and of the sparse
\* inequality rows are at least design_precision, and every variable has
\* lb + design_precision <= x <= ub - design_precision.
StepLeavesIterateInterior ==
  (dphase = "loop" /\ nsteps > 0) =>
    /\ prob.dense_inequality =>
         \A i \in 1..ncon :
           /\ s[i] >= design_precision
           /\ t[i] >= design_precision
           /\ z[i] >= design_precision
           /\ zt[i] >= design_precision
    /\ prob.sparse_inequality =>
         \A i \in 1..prob.nwcon :
           /\ sw[i] >= design_precision
           /\ zw[i] >= design_precision
    /\ \A i \in 1..nvars :
         /\ lb[i] + design_precision <= x[i]
         /\ x[i] <= ub[i] - design_precision

\* C5: inside optimize(), at its start and after every step, the multiplier
\* of an absent lower bound and of an absent upper bound is zero, and the
\* bound multipliers add nothing to r_x where both bounds are absent.
AbsentBoundMultipliersAreZero ==
  dphase = "loop" =>
    \A i \in 1..nvars :
      /\ lb[i] <= -max_bound_val => zl[i] = 0
      /\ ub[i] >= max_bound_val => zu[i] = 0
      /\ (lb[i] <= -max_bound_val /\ ub[i] >= max_bound_val) =>
           BoundTermOfRx(prob, zl, zu)[i] = 0

BoundsAndStartAreRepaired ==
  (dphase = "loop" /\ nsteps = 0) =>
    \A i \in 1..nvars :
      LET live_l == prob.use_lower /\ lb[i] > -max_bound_val
          live_u == prob.use_upper /\ ub[i] < max_bound_val
          delta == IF lb[i] > -max_bound_val /\ ub[i] < max_bound_val
                   THEN ub[i] - lb[i] ELSE OneD
      IN  /\ (live_l /\ live_u) => lb[i] < ub[i]
          /\ live_l => x[i] >= lb[i] + RelBoundTimes(delta)
          /\ live_u => x[i] <= ub[i] - RelBoundTimes(delta)

\* The sum of f[e] over the e in S.
RECURSIVE SumFn(_, _)
SumFn(f, S) ==
  IF S = {} THEN 0
  ELSE LET e == CHOOSE e1 \in S : TRUE IN f[e] + SumFn(f, S \ {e})

\* x - lb times zl and ub - x times zu, by variable.
LowerProducts == [i \in 1..nvars |-> zl[i] * (x[i] - lb[i])]

UpperProducts == [i \in 1..nvars |-> zu[i] * (ub[i] - x[i])]

DenseProducts == [i \in 1..ncon |-> s[i] * z[i] + t[i] * zt[i]]

EqualityMultipliersTakeExactStep ==
  [][(dphase = "loop" /\ nsteps' = nsteps + 1) =>
       \E ddual \in StepValues :
         /\ ~prob.dense_inequality =>
              z' = [i \in 1..ncon |-> z[i] + ddual]
         /\ (prob.nwcon > 0 /\ ~prob.sparse_inequality) =>
              zw' = [i \in 1..prob.nwcon |-> zw[i] + ddual]]_vars

(***************************************************************************)
(* The solution file (SpecFile).  Every rank owns one design variable and, *)
(* when the Problem has sparse constraints, one of them; z, s, t, zt and   *)
(* barrier_param are held by every rank.                                   *)
(***************************************************************************)
\* The ranks of the communicator.
nranks == 2

\* How often the solver's state moves.
MaxTicks == 2

opt_root == 0

Ranks == 0..(nranks - 1)

NoFile == <<>>

NoSnapshot == <<>>

DenseFields == {"z", "s", "t", "zt"}

DesignFields == {"x", "zl", "zu"}

SparseFields == {"zw", "sw"}

\* The value a vector holds when the solver is built.
FieldBase ==
  [z |-> 2, s |-> 3, t |-> 4, zt |-> 5, x |-> 6, zl |-> 7, zu |-> 8,
   zw |-> 9, sw |-> 10]

\* The state of rank r of a solver with nw sparse constraints per rank.
BuiltRank(r, nw) ==
  [barrier_param |-> 1,
   z |-> <<FieldBase.z>>, s |-> <<FieldBase.s>>, t |-> <<FieldBase.t>>,
   zt |-> <<FieldBase.zt>>,
   x |-> <<FieldBase.x + 20 * r>>, zl |-> <<FieldBase.zl + 20 * r>>,
   zu |-> <<FieldBase.zu + 20 * r>>,
   zw |-> ConstVec(nw, FieldBase.zw + 20 * r),
   sw |-> ConstVec(nw, FieldBase.sw + 20 * r)]

\* var_range[size], wcon_range[size] and ncon.
SolverSizes(rs) ==
  <<nranks * Len(rs[opt_root].x), nranks * Len(rs[opt_root].zw),
    Len(rs[opt_root].z)>>

\* The parts of the state optimize() moves together.
TickGroups ==
  {{"barrier_param"}, DenseFields, {"x"}, {"zl", "zu"}, SparseFields}

MoveVec(vec) == [i \in DOMAIN vec |-> vec[i] + 100]

\* The state of a rank after the fields of group have moved.
Tick(rk, group) ==
  [fld \in DOMAIN rk |->
     IF fld \notin group THEN rk[fld]
     ELSE IF fld = "barrier_param" THEN rk[fld] + 100
     ELSE MoveVec(rk[fld])]

\* writeSolutionFile: what the file holds.
writeSolutionFile(rs) ==
  [sizes |-> SolverSizes(rs),
   barrier_param |-> rs[opt_root].barrier_param,
   z |-> rs[opt_root].z,
   s |-> rs[opt_root].s,
   x |-> [r \in Ranks |-> rs[r].x],
   zl |-> [r \in Ranks |-> rs[r].zl],
   zu |-> [r \in Ranks |-> rs[r].zu],
   zw |-> [r \in Ranks |-> IF SolverSizes(rs)[2] > 0 THEN rs[r].zw ELSE <<>>],
   sw |-> [r \in Ranks |-> IF SolverSizes(rs)[2] > 0 THEN rs[r].sw ELSE <<>>]]

\* Files written by solvers of other sizes.
ForeignFiles(rs) ==
  {[writeSolutionFile(rs) EXCEPT
      !.sizes = [SolverSizes(rs) EXCEPT ![q] = @ + 1],
      !.barrier_param = 0, !.z = <<0>>, !.s = <<0>>] : q \in 1..3}

\* readSolutionFile: the size check on the root.
SizeFail(rs, fl) ==
  \/ fl.sizes[1] # SolverSizes(rs)[1]
  \/ fl.sizes[2] # SolverSizes(rs)[2]
  \/ fl.sizes[3] # SolverSizes(rs)[3]

\* A root that reads barrier_param, z and s whatever the sizes.
ReadHeaderAnySize(rk, fl, size_fail) ==
  [rk EXCEPT !.barrier_param = fl.barrier_param, !.z = fl.z, !.s = fl.s]

\* readSolutionFile: barrier_param, z and s, read on the root.
ReadHeader(rk, fl, size_fail) ==
  IF ~size_fail
  THEN [rk EXCEPT !.barrier_param = fl.barrier_param, !.z = fl.z, !.s = fl.s]
  ELSE rk

\* readSolutionFile on all the ranks: their states and what it returns.
readSolutionFile(rs, fl) ==
  IF fl = NoFile
  THEN [state |-> rs, fail |-> [r \in Ranks |-> 1]]
  ELSE
    LET size_fail == SizeFail(rs, fl)
        root == ReadHeader(rs[opt_root], fl, size_fail)
        has_wcon == SolverSizes(rs)[2] > 0
    IN  IF size_fail
        THEN [state |-> [rs EXCEPT ![opt_root] = root],
              fail |-> [r \in Ranks |-> 1]]
        ELSE [state |->
                [r \in Ranks |->
                   [(IF r = opt_root THEN root ELSE rs[r]) EXCEPT
                      !.z = root.z,
                      !.s = root.s,
                      !.x = fl.x[r],
                      !.zl = fl.zl[r],
                      !.zu = fl.zu[r],
                      !.zw = IF has_wcon THEN fl.zw[r] ELSE @,
                      !.sw = IF has_wcon THEN fl.sw[r] ELSE @]],
              fail |-> [r \in Ranks |-> 0]]

\* The solver as its constructor leaves it, and no file.
InitFile ==
  /\ \E nw \in {0, 1} : rstate = [r \in Ranks |-> BuiltRank(r, nw)]
  /\ fphase = "idle"
  /\ fticks = 0
  /\ file = NoFile
  /\ written = NoSnapshot
  /\ before_read = NoSnapshot
  /\ read_ret = [r \in Ranks |-> -1]
  /\ ParkedDriver
  /\ ParkedData
  /\ ParkedLine
  /\ ParkedRanks
  /\ ParkedStep
  /\ ParkedGmres

\* optimize() moves a part of the solver's state, on every rank alike.
FileStateMoves ==
  /\ fticks < MaxTicks
  /\ \E group \in TickGroups :
       rstate' = [r \in Ranks |-> Tick(rstate[r], group)]
  /\ fticks' = fticks + 1
  /\ fphase' = "idle"
  /\ before_read' = NoSnapshot
  /\ read_ret' = [r \in Ranks |-> -1]
  /\ UNCHANGED <<file, written, driverVars, dataVars, lineVars, rankVars,
                 stepVars, gmresVars>>

\* writeSolutionFile; the file may fail to open.
FileWrite ==
  /\ \E opened \in BOOLEAN :
       IF opened
       THEN /\ file' = writeSolutionFile(rstate)
            /\ written' = rstate
       ELSE UNCHANGED <<file, written>>
  /\ fphase' = "idle"
  /\ before_read' = NoSnapshot
  /\ read_ret' = [r \in Ranks |-> -1]
  /\ UNCHANGED <<fticks, rstate, driverVars, dataVars, lineVars, rankVars,
                 stepVars, gmresVars>>

\* A file written by a solver of other sizes takes the file's place.
FileFromOtherSolver ==
  /\ file' \in ForeignFiles(rstate)
  /\ file' # file
  /\ written' = NoSnapshot
  /\ fphase' = "idle"
  /\ before_read' = NoSnapshot
  /\ read_ret' = [r \in Ranks |-> -1]
  /\ UNCHANGED <<fticks, rstate, driverVars, dataVars, lineVars, rankVars,
                 stepVars, gmresVars>>

\* readSolutionFile, on all the ranks.
FileRead ==
  /\ fphase # "read"
  /\ \E res \in {readSolutionFile(rstate, file)} :
       /\ rstate' = res.state
       /\ read_ret' = res.fail
  /\ before_read' = rstate
  /\ fphase' = "read"
  /\ UNCHANGED <<fticks, file, written, driverVars, dataVars, lineVars, rankVars,
                 stepVars, gmresVars>>

\* optimize() called after a successful read: initAndCheckDesignAndBounds
\* takes x from the Problem.
FileOptimizeStart ==
  /\ fphase = "read"
  /\ \A r \in Ranks : read_ret[r] = 0
  /\ rstate' = [r \in Ranks |->
                  [rstate[r] EXCEPT
                     !.x = BuiltRank(r, Len(rstate[r].zw)).x]]
  /\ fphase' = "resumed"
  /\ UNCHANGED <<fticks, file, written, before_read, read_ret, driverVars,
                 dataVars, lineVars, rankVars,
                 stepVars, gmresVars>>

NextFile ==
  \/ FileStateMoves
  \/ FileWrite
  \/ FileFromOtherSolver
  \/ FileRead
  \/ FileOptimizeStart

SpecFile == InitFile /\ [][NextFile]_vars

(***************************************************************************)
(* Properties of the solution file.                                        *)
(***************************************************************************)
\* C7: after writeSolutionFile and a readSolutionFile that succeeds, on
\* every rank barrier_param, x, s, t, sw, z, zt, zw, zl and zu are what they
\* were when the file was written, and the optimize() that follows starts
\* from that x.
WriteReadRestoresState ==
  /\ (fphase = "read" /\ written # NoSnapshot
        /\ \A r \in Ranks : read_ret[r] = 0) =>
       \A r \in Ranks : rstate[r] = written[r]
  /\ (fphase = "resumed" /\ written # NoSnapshot) =>
       \A r \in Ranks : rstate[r].x = written[r].x

\* C8: after readSolutionFile on a file whose sizes differ from the
\* solver's, every rank has a nonzero return value and its barrier_param,
\* x, z, s, zl, zu, zw and sw are what they were before the call.
SizeMismatchLeavesStateUnchanged ==
  (fphase = "read" /\ file # NoFile
     /\ file.sizes # SolverSizes(before_read)) =>
    \A r \in Ranks :
      /\ read_ret[r] # 0
      /\ \A fld \in {"barrier_param", "x", "z", "s", "zl", "zu", "zw", "sw"} :
           rstate[r][fld] = before_read[r][fld]

\* C8 (witness): readSolutionFile has returned on a file of other sizes,
\* called on a solver whose state had moved since it was built.
ReadOfMismatchedFile ==
  /\ fphase = "read"
  /\ file # NoFile
  /\ file.sizes # SolverSizes(before_read)
  /\ fticks > 0
  /\ \A r \in Ranks : read_ret[r] = 1

\* C29: after a readSolutionFile that succeeds on every rank, the
\* replicated quantities it restores are the same on all the ranks:
\* barrier_param, z and s of every rank are what the root read.
ReplicatedValuesAgreeAfterRead ==
  (fphase = "read" /\ \A r \in Ranks : read_ret[r] = 0) =>
    \A r \in Ranks :
      /\ rstate[r].barrier_param = rstate[opt_root].barrier_param
      /\ rstate[r].barrier_param = file.barrier_param
      /\ rstate[r].z = file.z
      /\ rstate[r].s = file.s

(***************************************************************************)
(* The line search (SpecLine): one call of lineSearch().  Step lengths are *)
(* fixed-point with 1.0 == AOne; merit values and dm0 are in units of      *)
(* function_precision.  The Problem's evaluation at a trial point either   *)
(* fails or gives a merit value.                                           *)
(***************************************************************************)
\* max_line_iters, as setMaxLineSearchIters leaves it.
max_line_iters == 3

\* The step length 1.0 the driver starts the line search from.
AOne == 10000

\* armijo_constant as a fraction <<numerator, denominator>>: 0 and 0.5.
ArmijoChoices == {<<0, 1>>, <<1, 2>>}

\* alpha_min: 0.001 and 0.3.
AlphaMins == {AOne \div 1000, (3 * AOne) \div 10}

\* The arguments and options lineSearch is called under; dm0 < 0.
LineInputs ==
  [m0 : {-3, 0}, dm0 : {-4}, alpha_min : AlphaMins, armijo : ArmijoChoices,
   use_backtracking_alpha : BOOLEAN]

\* merit - m0 at a trial point, as the Problem's evaluation gives it.
MeritOffsets == {-2, -1, 1, 3}

\* The sufficient decrease condition, relaxed by function_precision:
\* merit - armijo_constant*alpha*dm0 < m0 + function_precision.
SufficientDecrease(mer, a, in) ==
  mer * AOne * in.armijo[2] - in.armijo[1] * a * in.dm0
    < (in.m0 + function_precision) * AOne * in.armijo[2]

\* A failed evaluation that halves the step length.
FailedTrialAlphaHalved(a) == a \div 2

\* The step length after a failed evaluation: alpha *= 0.1.
FailedTrialAlpha(a) == a \div 10

\* alpha_new = -0.5*dm0*alpha^2/(merit - m0 - dm0*alpha).
InterpolatedAlpha(a, mer, in) ==
  (-(in.dm0) * a * a) \div (2 * AOne * (mer - in.m0) - 2 * in.dm0 * a)

\* The step length and the flags after a rejected trial jj.
UpdateAlpha(a, f, mer, in, jj) ==
  IF jj < max_line_iters - 1
  THEN IF in.use_backtracking_alpha
       THEN IF a \div 2 <= in.alpha_min
            THEN <<in.alpha_min, f \cup {"MIN_STEP"}>>
            ELSE <<a \div 2, f>>
       ELSE LET alpha_new == InterpolatedAlpha(a, mer, in)
            IN  IF alpha_new <= in.alpha_min
                THEN <<in.alpha_min, f \cup {"MIN_STEP"}>>
                ELSE IF alpha_new < a \div 100
                THEN <<a \div 100, f>>
                ELSE <<alpha_new, f>>
  ELSE <<a, f>>

\* A flag set on the last trial of the loop, whether or not the loop ended.
MaxItersFlagOnLastTrial(jj, f) ==
  IF jj >= max_line_iters - 1 THEN f \cup {"MAX_ITERS"} ELSE f

\* The flags after the loop: MAX_ITERS when the loop ran out.
MaxItersFlag(jj, f) ==
  IF jj = max_line_iters THEN f \cup {"MAX_ITERS"} ELSE f

\* No significant change in the merit function, as lineSearch tests it.
NoMeritChange(mm0, mer) ==
  /\ mm0 + function_precision <= mer
  /\ mer + function_precision <= mm0

\* The flags lineSearch returns when the loop did not end in SUCCESS.
StatusFlags(f, in, mer, best) ==
  IF best <= in.m0 + function_precision
  THEN (f \cup {"SUCCESS"}) \ {"FAILURE"}
  ELSE IF NoMeritChange(in.m0, mer)
  THEN f \cup {"NO_IMPROVEMENT"}
  ELSE f

\* fobj and c after an evalObjCon that failed: what they held, or values
\* of no point.
NoPoint == -1

FailedEvaluation(held) == {held, NoPoint}

InitLine ==
  /\ lpc = "trial"
  /\ ls \in LineInputs
  /\ j = 0
  /\ alpha = AOne
  /\ fail = {"FAILURE"}
  /\ merit = 0
  /\ best_merit = 0
  /\ best_alpha = -AOne
  /\ neval = 0
  /\ last_trial = "none"
  /\ alpha_tried = 0
  /\ re_fail_obj = FALSE
  /\ eval_alpha = 0
  /\ ParkedDriver
  /\ ParkedData
  /\ ParkedFile
  /\ ParkedRanks
  /\ ParkedStep
  /\ ParkedGmres

\* One pass of the loop of lineSearch.
LineTrial ==
  /\ lpc = "trial"
  /\ j < max_line_iters
  /\ neval' = neval + 1
  /\ alpha_tried' = alpha
  /\ \E fail_obj \in BOOLEAN :
       IF fail_obj
       THEN /\ alpha' = FailedTrialAlpha(alpha)
            /\ eval_alpha' \in FailedEvaluation(eval_alpha)
            /\ j' = j + 1
            /\ last_trial' = "failed"
            /\ lpc' = IF j + 1 = max_line_iters THEN "tail" ELSE "trial"
            /\ UNCHANGED <<fail, merit, best_merit, best_alpha>>
       ELSE \E off \in MeritOffsets :
            \E mer \in {ls.m0 + off} :
              /\ merit' = mer
              /\ eval_alpha' = alpha
              /\ IF best_alpha < 0 \/ mer < best_merit
                 THEN /\ best_alpha' = alpha
                      /\ best_merit' = mer
                 ELSE UNCHANGED <<best_alpha, best_merit>>
              /\ IF SufficientDecrease(mer, alpha, ls)
                 THEN /\ fail' = IF "MIN_STEP" \in fail
                                 THEN {"SUCCESS", "MIN_STEP"} ELSE {"SUCCESS"}
                      /\ last_trial' = "accepted"
                      /\ lpc' = "tail"
                      /\ UNCHANGED <<alpha, j>>
                 ELSE IF "MIN_STEP" \in fail
                 THEN /\ last_trial' = "min_step"
                      /\ lpc' = "tail"
                      /\ UNCHANGED <<alpha, j, fail>>
                 ELSE \E upd \in {UpdateAlpha(alpha, fail, mer, ls, j)} :
                        /\ alpha' = upd[1]
                        /\ fail' = upd[2]
                        /\ j' = j + 1
                        /\ last_trial' = "rejected"
                        /\ lpc' = IF j + 1 = max_line_iters
                                  THEN "tail" ELSE "trial"
  /\ UNCHANGED <<ls, re_fail_obj>>
  /\ UNCHANGED <<driverVars, dataVars, fileVars, rankVars,
                 stepVars, gmresVars>>

\* lineSearch after its loop: the MAX_ITERS flag, the status, and the
\* evaluation at the best step length.
LineTail ==
  /\ lpc = "tail"
  /\ lpc' = "returned"
  /\ \E f1 \in {MaxItersFlag(j, fail)} :
       IF "SUCCESS" \notin f1
       THEN \E f2 \in {StatusFlags(f1, ls, merit, best_merit)} :
              /\ alpha' = best_alpha
              /\ IF alpha # best_alpha
                 THEN /\ neval' = neval + 1
                      /\ \E fail_obj \in BOOLEAN :
                           /\ re_fail_obj' = fail_obj
                           /\ fail' = IF fail_obj THEN {"FAILURE"} ELSE f2
                           /\ eval_alpha' \in
                                IF fail_obj
                                THEN FailedEvaluation(eval_alpha)
                                ELSE {best_alpha}
                 ELSE /\ fail' = f2
                      /\ UNCHANGED <<neval, re_fail_obj, eval_alpha>>
       ELSE /\ fail' = f1
            /\ UNCHANGED <<alpha, neval, re_fail_obj, eval_alpha>>
  /\ UNCHANGED <<ls, j, merit, best_merit, best_alpha, last_trial, alpha_tried>>
  /\ UNCHANGED <<driverVars, dataVars, fileVars, rankVars,
                 stepVars, gmresVars>>

NextLine ==
  \/ LineTrial
  \/ LineTail

SpecLine == InitLine /\ [][NextLine]_vars

(***************************************************************************)
(* Properties of the line search.                                          *)
(***************************************************************************)
\* C15 (as stated): after a trial whose evalObjCon failed, the next trial
\* step length is half of the failed one.
FailedTrialHalvesAlpha ==
  (lpc \in {"trial", "tail"} /\ last_trial = "failed") =>
    alpha = alpha_tried \div 2

\* C15 (amended): after a trial whose evalObjCon failed, the next trial
\* step length is one tenth of the failed one, whatever alpha_min is, and
\* the failed trial has used up one pass of the loop.
FailedTrialTenthsAlpha ==
  (lpc \in {"trial", "tail"} /\ last_trial = "failed") =>
    /\ alpha = alpha_tried \div 10
    /\ j >= 1
    /\ neval = j

\* C15 (witness): the evaluation at the full step failed and the search
\* goes on to retry.
FailedTrialAtFullStep ==
  /\ lpc = "trial"
  /\ last_trial = "failed"
  /\ alpha_tried = AOne
  /\ j = 1

\* C17: when lineSearch has returned without the sufficient decrease
\* condition and its last merit value is within function_precision of m0,
\* the flags it returned include NO_IMPROVEMENT.
NoImprovementIsReported ==
  (/\ lpc = "returned"
   /\ last_trial # "accepted"
   /\ best_alpha >= 0
   /\ ~re_fail_obj
   /\ Abs(merit - ls.m0) <= function_precision)
    => "NO_IMPROVEMENT" \in fail

\* C18: with quadratic interpolation, the step length that follows a
\* rejected trial alpha (with alpha_min <= alpha/2) is at least
\* max(alpha_min, 0.01*alpha) and at most alpha/2.
InterpolatedAlphaWithinBounds ==
  (/\ lpc = "trial"
   /\ last_trial = "rejected"
   /\ ~ls.use_backtracking_alpha
   /\ 2 * ls.alpha_min <= alpha_tried)
    => /\ alpha >= ls.alpha_min
       /\ alpha >= alpha_tried \div 100
       /\ 2 * alpha <= alpha_tried

ReturnedAlphaWasEvaluated ==
  (lpc = "returned" /\ "FAILURE" \notin fail) =>
    /\ alpha > 0
    /\ \/ last_trial = "accepted" /\ alpha = alpha_tried
       \/ best_alpha > 0 /\ alpha = best_alpha

\* C30: when lineSearch returns, fobj and c hold the Problem's values at
\* the point the next major iteration starts from: x + alpha*px, which
\* the driver moves to, when the FAILURE flag is clear, and x itself when
\* the line search ended in FAILURE and no step is applied.
StoredValuesAreAtStoredPoint ==
  lpc = "returned" =>
    eval_alpha = (IF "FAILURE" \in fail THEN 0 ELSE alpha)

(***************************************************************************)
(* The ranks (SpecRanks).  Every rank runs the major iterations of         *)
(* optimize() on its own; the ranks meet in MPI_Bcast from the root and in *)
(* MPI_Reduce to the root.  MPI_Bcast returns at once on the root and when *)
(* the root's buffer has come on the others; MPI_Reduce returns at once on *)
(* the others and when every buffer has come on the root.  The dense       *)
(* matrix D has one row; the penalty parameter is in units of 1/8.         *)
(***************************************************************************)
\* The major iterations the ranks are followed through.
MaxRankIters == 2

\* min_rho_penalty_search, as setMinPenaltyParameter leaves it.
min_rho_penalty_search == 8

\* rho_hat, as the root computes it.
RhoHats == {-4, 4, 40}

\* What a rank's loops add to its Dmat at the starting point.
LocalDmats == {1, 2}

\* s[i]/z[i] + t[i]/zt[i].
DiagTerm == 2

\* A rank at the head of major iteration kk, its loops adding d0 to Dmat
\* at the starting point.
RankAt(kk, d0) ==
  [pc |-> "head", k |-> kk, barrier_converged |-> FALSE, converged |-> FALSE,
   local_converged |-> FALSE, rho |-> min_rho_penalty_search, Dmat |-> 0,
   local |-> d0, nb |-> 0, nfact |-> 0]

\* A broadcast that leaves every rank with the value it computed itself.
BcastValueLocal(r, local, n) == local

\* MPI_Bcast(buffer, ..., opt_root, comm): the buffer of rank r afterwards.
BcastValue(r, local, n) ==
  IF r = opt_root THEN local ELSE bcast_log[n]

\* MPI_Bcast can return on rank r.
BcastReady(r, n) == r = opt_root \/ Len(bcast_log) >= n

\* What the root has sent once rank r has called MPI_Bcast.
BcastSent(r, local) ==
  IF r = opt_root THEN Append(bcast_log, local) ELSE bcast_log

\* A reduction that leaves the root with its own contribution.
RootDmatOwn(own, others) == own

\* MPI_Reduce(MPI_IN_PLACE, Dmat, ..., MPI_SUM, opt_root, comm) on the root.
RootDmat(own, others) ==
  own + SumFn(others, DOMAIN others)

\* The diagonal component, added on the root.
DiagCorrection(r, d, dense) ==
  IF r = opt_root /\ dense THEN d + DiagTerm ELSE d

\* LAPACKdgetrf on the one-row matrix: the factor, the pivot and info.
Dgetrf(d) == [lu |-> d, piv |-> 1, info |-> IF d = 0 THEN 1 ELSE 0]

\* A penalty update that does not damp the parameter.
PenaltyUpdateNoDamping(rho, rho_hat) ==
  LET r1 == IF rho_hat > rho THEN rho_hat ELSE rho
  IN  IF r1 < min_rho_penalty_search THEN min_rho_penalty_search ELSE r1

\* The update of rho_penalty_search in evalMeritInitDeriv, on the root.
PenaltyUpdate(rho, rho_hat) ==
  LET r1 == IF rho_hat > rho
            THEN rho_hat
            ELSE (IF rho \div 2 < rho_hat THEN rho_hat ELSE rho \div 2)
  IN  IF r1 < min_rho_penalty_search THEN min_rho_penalty_search ELSE r1

InitRanks ==
  /\ \E d0 \in [Ranks -> LocalDmats] :
       ranks = [r \in Ranks |-> RankAt(0, d0[r])]
  /\ rdense \in BOOLEAN
  /\ dec = [r \in Ranks |-> <<>>]
  /\ lus = [r \in Ranks |-> <<>>]
  /\ rhos = [r \in Ranks |-> <<>>]
  /\ rho_in = <<>>
  /\ bcast_log = <<>>
  /\ reduce_in = [r \in Ranks |-> <<>>]
  /\ ParkedDriver
  /\ ParkedData
  /\ ParkedFile
  /\ ParkedLine
  /\ ParkedStep
  /\ ParkedGmres

\* The test of the barrier problem and its broadcast; a barrier update
\* resets the penalty parameter.
RankBarrierTest ==
  \E r \in Ranks :
    /\ ranks[r].pc = "head"
    /\ IF ranks[r].k >= MaxRankIters
       THEN /\ ranks' = [ranks EXCEPT ![r].pc = "done"]
            /\ UNCHANGED bcast_log
       ELSE /\ BcastReady(r, ranks[r].nb + 1)
            /\ \E loc \in (IF ranks[r].k > 0 THEN BOOLEAN ELSE {FALSE}) :
               \E msg \in {[kind |-> "barrier_converged", val |-> loc]} :
               \E got \in {BcastValue(r, msg, ranks[r].nb + 1)} :
                 /\ bcast_log' = BcastSent(r, msg)
                 /\ ranks' = [ranks EXCEPT
                      ![r].barrier_converged = got.val,
                      ![r].rho = IF got.val THEN min_rho_penalty_search ELSE @,
                      ![r].nb = @ + 1,
                      ![r].pc = "conv"]
    /\ UNCHANGED <<rdense, dec, lus, rhos, rho_in, reduce_in>>
    /\ UNCHANGED <<driverVars, dataVars, fileVars, lineVars,
                 stepVars, gmresVars>>

\* The convergence test, its broadcast and the break.
RankConvergenceTest ==
  \E r \in Ranks :
    /\ ranks[r].pc = "conv"
    /\ BcastReady(r, ranks[r].nb + 1)
    /\ \E loc \in (IF ranks[r].k > 0 THEN BOOLEAN ELSE {FALSE}) :
       \E msg \in {[kind |-> "converged", val |-> loc]} :
       \E got \in {BcastValue(r, msg, ranks[r].nb + 1)} :
         /\ bcast_log' = BcastSent(r, msg)
         /\ ranks' = [ranks EXCEPT
              ![r].local_converged = loc,
              ![r].converged = got.val,
              ![r].nb = @ + 1,
              ![r].pc = IF got.val THEN "left" ELSE "setup"]
         /\ dec' = [dec EXCEPT
              ![r] = Append(@, <<ranks[r].barrier_converged, got.val>>)]
    /\ UNCHANGED <<rdense, lus, rhos, rho_in, reduce_in>>
    /\ UNCHANGED <<driverVars, dataVars, fileVars, lineVars,
                 stepVars, gmresVars>>

\* setUpKKTDiagSystem: the on-processor components of Dmat.
RankLocalDmat ==
  \E r \in Ranks :
    /\ ranks[r].pc = "setup"
    /\ ranks' = [ranks EXCEPT
         ![r].Dmat = ranks[r].local + ranks[r].k,
         ![r].pc = "reduce"]
    /\ UNCHANGED <<rdense, dec, lus, rhos, rho_in, bcast_log, reduce_in>>
    /\ UNCHANGED <<driverVars, dataVars, fileVars, lineVars,
                 stepVars, gmresVars>>

\* setUpKKTDiagSystem: the reduction to the root and, on the root, the
\* diagonal component.
RankReduce ==
  \E r \in Ranks :
    /\ ranks[r].pc = "reduce"
    /\ reduce_in' = [reduce_in EXCEPT ![r] = Append(@, ranks[r].Dmat)]
    /\ IF r = opt_root
       THEN /\ \A q \in Ranks \ {opt_root} :
                 Len(reduce_in[q]) >= Len(reduce_in[r]) + 1
            /\ \E others \in {[q \in Ranks \ {opt_root} |->
                                 reduce_in[q][Len(reduce_in[r]) + 1]]} :
                 ranks' = [ranks EXCEPT
                   ![r].Dmat = DiagCorrection(r, RootDmat(@, others), rdense),
                   ![r].pc = "bcast_D"]
       ELSE ranks' = [ranks EXCEPT
              ![r].Dmat = DiagCorrection(r, @, rdense),
              ![r].pc = "bcast_D"]
    /\ UNCHANGED <<rdense, dec, lus, rhos, rho_in, bcast_log>>
    /\ UNCHANGED <<driverVars, dataVars, fileVars, lineVars,
                 stepVars, gmresVars>>

\* setUpKKTDiagSystem: the broadcast of Dmat.
RankBcastDmat ==
  \E r \in Ranks :
    /\ ranks[r].pc = "bcast_D"
    /\ BcastReady(r, ranks[r].nb + 1)
    /\ \E msg \in {[kind |-> "Dmat", val |-> ranks[r].Dmat,
                    factored |-> FALSE]} :
       \E got \in {BcastValue(r, msg, ranks[r].nb + 1)} :
         /\ bcast_log' = BcastSent(r, msg)
         /\ ranks' = [ranks EXCEPT
              ![r].Dmat = got.val,
              ![r].nb = @ + 1,
              ![r].pc = "factor"]
    /\ UNCHANGED <<rdense, dec, lus, rhos, rho_in, reduce_in>>
    /\ UNCHANGED <<driverVars, dataVars, fileVars, lineVars,
                 stepVars, gmresVars>>

\* setUpKKTDiagSystem: the factorization of Dmat.
RankFactor ==
  \E r \in Ranks :
    /\ ranks[r].pc = "factor"
    /\ lus' = [lus EXCEPT ![r] = Append(@, Dgetrf(ranks[r].Dmat))]
    /\ ranks' = [ranks EXCEPT ![r].nfact = @ + 1, ![r].pc = "merit"]
    /\ UNCHANGED <<rdense, dec, rhos, rho_in, bcast_log, reduce_in>>
    /\ UNCHANGED <<driverVars, dataVars, fileVars, lineVars,
                 stepVars, gmresVars>>

\* evalMeritInitDeriv: the penalty parameter, updated on the root and
\* broadcast; the end of the major iteration.
RankEvalMeritInitDeriv ==
  \E r \in Ranks :
    /\ ranks[r].pc = "merit"
    /\ BcastReady(r, ranks[r].nb + 1)
    /\ \E rho_hat \in (IF r = opt_root THEN RhoHats ELSE {0}) :
       \E msg \in {[kind |-> "rho",
                    val |-> IF r = opt_root
                            THEN PenaltyUpdate(ranks[r].rho, rho_hat)
                            ELSE ranks[r].rho]} :
       \E got \in {BcastValue(r, msg, ranks[r].nb + 1)} :
         /\ bcast_log' = BcastSent(r, msg)
         /\ rho_in' = IF r = opt_root
                      THEN Append(rho_in, [rho |-> ranks[r].rho,
                                           rho_hat |-> rho_hat])
                      ELSE rho_in
         /\ rhos' = [rhos EXCEPT ![r] = Append(@, got.val)]
         /\ ranks' = [ranks EXCEPT
              ![r].rho = got.val,
              ![r].nb = @ + 1,
              ![r].k = @ + 1,
              ![r].pc = "head"]
    /\ UNCHANGED <<rdense, dec, lus, reduce_in>>
    /\ UNCHANGED <<driverVars, dataVars, fileVars, lineVars,
                 stepVars, gmresVars>>

NextRanks ==
  \/ RankBarrierTest
  \/ RankConvergenceTest
  \/ RankLocalDmat
  \/ RankReduce
  \/ RankBcastDmat
  \/ RankFactor
  \/ RankEvalMeritInitDeriv

SpecRanks == InitRanks /\ [][NextRanks]_vars

(***************************************************************************)
(* Properties of the ranks.                                                *)
(***************************************************************************)
\* The positions of a rank inside the step of a major iteration.
StepPositions == {"setup", "reduce", "bcast_D", "factor", "merit"}

PenaltyIsDampedAndShared ==
  \A r \in Ranks :
    /\ \A n \in 1..Len(rhos[r]) :
         /\ Len(rho_in) >= n
         /\ rhos[r][n] =
              (IF rho_in[n].rho_hat > rho_in[n].rho
               THEN rho_in[n].rho_hat
               ELSE Max2(Max2(rho_in[n].rho \div 2, rho_in[n].rho_hat),
                         min_rho_penalty_search))
         /\ rhos[r][n] >= min_rho_penalty_search
         /\ rhos[r][n] >= rho_in[n].rho_hat
    /\ ranks[r].rho >= min_rho_penalty_search
    /\ (ranks[r].pc = "conv" /\ ranks[r].barrier_converged) =>
         ranks[r].rho = min_rho_penalty_search

\* C20 (witness): a rank other than the root holds a penalty parameter
\* that the root has damped to half of its value.
OtherRankHoldsDampedPenalty ==
  \E r \in Ranks \ {opt_root} :
    /\ Len(rhos[r]) >= 2
    /\ rhos[r][2] = rho_in[2].rho \div 2
    /\ rhos[r][2] > min_rho_penalty_search
    /\ rhos[r][2] > rho_in[2].rho_hat

(***************************************************************************)
(* The scaling of the KKT step (SpecStep): computeMaxStep() and            *)
(* scaleKKTStep() on a Problem with one design variable, one dense and one *)
(* sparse constraint.  Step lengths, tau and the scaled steps are exact    *)
(* fractions <<numerator, denominator>> in lowest terms.                   *)
(***************************************************************************)
\* The largest size of a component of the KKT step.
MaxStepSize == 4

\* max_bnd of scaleKKTStep.
max_bnd == 100

RECURSIVE GCD(_, _)
GCD(a, b) == IF b = 0 THEN a ELSE GCD(b, a % b)

\* The fraction n/d, d > 0, in lowest terms.
Frac(n, d) ==
  LET g == GCD(Abs(n), d)
  IN  IF n = 0 THEN <<0, 1>> ELSE <<n \div g, d \div g>>

FracLess(a, b) == a[1] * b[2] < b[1] * a[2]

FracLeq(a, b) == a[1] * b[2] <= b[1] * a[2]

FracMin(S) == CHOOSE f \in S : \A g \in S : FracLeq(f, g)

\* a*n/d for an integer n and d > 0.
FracTimes(a, n, d) == Frac(a[1] * n, a[2] * d)

\* tau = max(min_fraction_to_boundary, 1 - barrier_param), with
\* min_fraction_to_boundary = 0.95: 0.95 and 0.99.
Taus == {<<19, 20>>, <<99, 100>>}

\* The components of the KKT step: a long step back, a step back, a step
\* forward.
StepComponents == {-100 * MaxStepSize, -MaxStepSize, 1}

ShortStepComponents == {-MaxStepSize, 1}

\* The iterate and the KKT step scaleKKTStep is called on.  x - lb and
\* ub - x, the slacks and the multipliers are positive.
KKTSteps ==
  [use_lower : BOOLEAN, use_upper : BOOLEAN,
   dense_inequality : BOOLEAN, sparse_inequality : BOOLEAN,
   inexact_newton_step : BOOLEAN, tau : Taus,
   x : {3}, lb : {0}, ub : {5}, s : {2}, t : {1}, sw : {2},
   z : {1}, zt : {2}, zw : {3}, zl : {1}, zu : {2},
   px : StepComponents, ps : ShortStepComponents, pt : {-1},
   psw : ShortStepComponents,
   pz : StepComponents, pzt : ShortStepComponents, pzw : {-2},
   pzl : ShortStepComponents, pzu : {1}]

\* alpha = -tau*numer/p, for p < 0.
BoundaryStep(tau, numer, p) == FracTimes(tau, numer, -p)

\* computeMaxStep: the limits of the step in the design variables and
\* slacks.
MaxStepX(kk, tau) ==
  {FracOne}
    \cup (IF kk.use_lower /\ kk.px < 0
          THEN {BoundaryStep(tau, kk.x - kk.lb, kk.px)} ELSE {})
    \cup (IF kk.use_upper /\ kk.px > 0
          THEN {BoundaryStep(tau, kk.ub - kk.x, -kk.px)} ELSE {})
    \cup (IF kk.dense_inequality /\ kk.ps < 0
          THEN {BoundaryStep(tau, kk.s, kk.ps)} ELSE {})
    \cup (IF kk.dense_inequality /\ kk.pt < 0
          THEN {BoundaryStep(tau, kk.t, kk.pt)} ELSE {})
    \cup (IF kk.sparse_inequality /\ kk.psw < 0
          THEN {BoundaryStep(tau, kk.sw, kk.psw)} ELSE {})

\* computeMaxStep: the limits of the step in the multipliers.
MaxStepZ(kk, tau) ==
  {FracOne}
    \cup (IF kk.dense_inequality /\ kk.pz < 0
          THEN {BoundaryStep(tau, kk.z, kk.pz)} ELSE {})
    \cup (IF kk.dense_inequality /\ kk.pzt < 0
          THEN {BoundaryStep(tau, kk.zt, kk.pzt)} ELSE {})
    \cup (IF kk.sparse_inequality /\ kk.pzw < 0
          THEN {BoundaryStep(tau, kk.zw, kk.pzw)} ELSE {})
    \cup (IF kk.use_lower /\ kk.pzl < 0
          THEN {BoundaryStep(tau, kk.zl, kk.pzl)} ELSE {})
    \cup (IF kk.use_upper /\ kk.pzu < 0
          THEN {BoundaryStep(tau, kk.zu, kk.pzu)} ELSE {})

\* computeMaxStep(tau, &max_x, &max_z).
computeMaxStep(kk, tau) ==
  <<FracMin(MaxStepX(kk, tau)), FracMin(MaxStepZ(kk, tau))>>

\* A bound on the ratio that brings the shorter step length up to 1/100
\* of the longer one.
BoundStepRatioFromBelow(ax, az) ==
  IF FracLess(az, ax)
  THEN <<ax, IF FracLess(FracTimes(az, max_bnd, 1), ax)
             THEN FracTimes(ax, 1, max_bnd) ELSE az>>
  ELSE <<IF FracLess(FracTimes(ax, max_bnd, 1), az)
         THEN FracTimes(az, 1, max_bnd) ELSE ax, az>>

\* scaleKKTStep: the bound on the ratio of the two step lengths.
BoundStepRatio(ax, az) ==
  IF FracLess(az, ax)
  THEN IF FracLess(FracTimes(az, max_bnd, 1), ax)
       THEN <<FracTimes(az, max_bnd, 1), az>>
       ELSE IF FracLess(ax, FracTimes(az, 1, max_bnd))
       THEN <<FracTimes(az, 1, max_bnd), az>>
       ELSE <<ax, az>>
  ELSE IF FracLess(FracTimes(ax, max_bnd, 1), az)
       THEN <<ax, FracTimes(ax, max_bnd, 1)>>
       ELSE IF FracLess(az, FracTimes(ax, 1, max_bnd))
       THEN <<ax, FracTimes(ax, 1, max_bnd)>>
       ELSE <<ax, az>>

\* scaleKKTStep: equal step lengths, the shorter of the two.
EqualSteps(ax, az) ==
  IF FracLess(az, ax) THEN <<az, az>> ELSE <<ax, ax>>

\* scaleKKTStep: alpha_x, alpha_z and ceq_step; comp_grows stands for
\* computeCompStep(alpha_x, alpha_z) > 10*comp.
StepLengths(mx, mz, inexact, comp_grows) ==
  IF ~inexact
  THEN LET b == BoundStepRatio(mx, mz)
       IN  IF comp_grows
           THEN [alpha |-> EqualSteps(b[1], b[2]), ceq_step |-> 1]
           ELSE [alpha |-> b, ceq_step |-> 0]
  ELSE [alpha |-> EqualSteps(mx, mz), ceq_step |-> 0]

\* A scaling of pzt by the step length of the design variables.
ScaleDualSlackStepByAlphaX(ax, az, p) == FracTimes(ax, p, 1)

\* scaleStep(alpha_z, ncon, pzt).
ScaleDualSlackStep(ax, az, p) == FracTimes(az, p, 1)

\* scaleKKTStep: the steps after the scaling; a step the Problem does not
\* use is left as it is.
ScaledSteps(kk, ax, az) ==
  [px |-> FracTimes(ax, kk.px, 1),
   pzw |-> FracTimes(az, kk.pzw, 1),
   psw |-> IF kk.sparse_inequality
           THEN FracTimes(ax, kk.psw, 1) ELSE Frac(kk.psw, 1),
   pzl |-> IF kk.use_lower THEN FracTimes(az, kk.pzl, 1) ELSE Frac(kk.pzl, 1),
   pzu |-> IF kk.use_upper THEN FracTimes(az, kk.pzu, 1) ELSE Frac(kk.pzu, 1),
   pz |-> FracTimes(az, kk.pz, 1),
   ps |-> IF kk.dense_inequality
          THEN FracTimes(ax, kk.ps, 1) ELSE Frac(kk.ps, 1),
   pt |-> IF kk.dense_inequality
          THEN FracTimes(ax, kk.pt, 1) ELSE Frac(kk.pt, 1),
   pzt |-> IF kk.dense_inequality
           THEN ScaleDualSlackStep(ax, az, kk.pzt) ELSE Frac(kk.pzt, 1)]

InitStep ==
  /\ spc = "step"
  /\ kkt \in KKTSteps
  /\ scaled = NotScaled
  /\ ParkedDriver
  /\ ParkedData
  /\ ParkedFile
  /\ ParkedLine
  /\ ParkedRanks
  /\ ParkedGmres

\* scaleKKTStep(tau, comp, inexact_newton_step, &alpha_x, &alpha_z).
ScaleKKTStep ==
  /\ spc = "step"
  /\ \E comp_grows \in BOOLEAN :
     \E mx \in {computeMaxStep(kkt, kkt.tau)} :
     \E sl \in {StepLengths(mx[1], mx[2], kkt.inexact_newton_step,
                            comp_grows)} :
       scaled' = [max_x |-> mx[1], max_z |-> mx[2],
                  alpha_x |-> sl.alpha[1], alpha_z |-> sl.alpha[2],
                  ceq_step |-> sl.ceq_step,
                  p |-> ScaledSteps(kkt, sl.alpha[1], sl.alpha[2])]
  /\ spc' = "scaled"
  /\ UNCHANGED kkt
  /\ UNCHANGED <<driverVars, dataVars, fileVars, lineVars, rankVars, gmresVars>>

NextStep == ScaleKKTStep

SpecStep == InitStep /\ [][NextStep]_vars

(***************************************************************************)
(* Properties of the scaling of the step.                                  *)
(***************************************************************************)
\* C21 (as stated): scaleKKTStep multiplies px, ps, pt, psw and pzt by
\* alpha_x and pz, pzl, pzu, pzw by alpha_z.
DualSlackStepScaledByAlphaX ==
  spc = "scaled" =>
    /\ scaled.p.px = FracTimes(scaled.alpha_x, kkt.px, 1)
    /\ kkt.dense_inequality =>
         /\ scaled.p.ps = FracTimes(scaled.alpha_x, kkt.ps, 1)
         /\ scaled.p.pt = FracTimes(scaled.alpha_x, kkt.pt, 1)
         /\ scaled.p.pzt = FracTimes(scaled.alpha_x, kkt.pzt, 1)
    /\ kkt.sparse_inequality =>
         scaled.p.psw = FracTimes(scaled.alpha_x, kkt.psw, 1)
    /\ scaled.p.pz = FracTimes(scaled.alpha_z, kkt.pz, 1)
    /\ scaled.p.pzw = FracTimes(scaled.alpha_z, kkt.pzw, 1)
    /\ kkt.use_lower => scaled.p.pzl = FracTimes(scaled.alpha_z, kkt.pzl, 1)
    /\ kkt.use_upper => scaled.p.pzu = FracTimes(scaled.alpha_z, kkt.pzu, 1)

\* C21 (amended): scaleKKTStep multiplies px, ps, pt and psw by alpha_x and
\* pz, pzt, pzl, pzu and pzw by alpha_z: pzt, the step of the multipliers
\* of the slacks t, goes with the multipliers; ps, pt and pzt are scaled
\* on dense inequalities only, psw on sparse inequalities only, pzl and pzu
\* when the bounds are in use.
DualSlackStepScaledByAlphaZ ==
  spc = "scaled" =>
    /\ scaled.p.px = FracTimes(scaled.alpha_x, kkt.px, 1)
    /\ kkt.dense_inequality =>
         /\ scaled.p.ps = FracTimes(scaled.alpha_x, kkt.ps, 1)
         /\ scaled.p.pt = FracTimes(scaled.alpha_x, kkt.pt, 1)
         /\ scaled.p.pzt = FracTimes(scaled.alpha_z, kkt.pzt, 1)
    /\ kkt.sparse_inequality =>
         scaled.p.psw = FracTimes(scaled.alpha_x, kkt.psw, 1)
    /\ scaled.p.pz = FracTimes(scaled.alpha_z, kkt.pz, 1)
    /\ scaled.p.pzw = FracTimes(scaled.alpha_z, kkt.pzw, 1)
    /\ kkt.use_lower => scaled.p.pzl = FracTimes(scaled.alpha_z, kkt.pzl, 1)
    /\ kkt.use_upper => scaled.p.pzu = FracTimes(scaled.alpha_z, kkt.pzu, 1)

\* C21 (witness): on dense inequalities the two step lengths differ and pzt
\* has been scaled by alpha_z.
DualSlackStepScaledWithMultipliers ==
  /\ spc = "scaled"
  /\ kkt.dense_inequality
  /\ scaled.alpha_x # scaled.alpha_z
  /\ scaled.p.pzt = FracTimes(scaled.alpha_z, kkt.pzt, 1)
  /\ scaled.p.pzt # FracTimes(scaled.alpha_x, kkt.pzt, 1)

\* v + p >= (1 - tau)*v for a positive v and its scaled step p.
KeepsFraction(v, p, tau) ==
  (v * p[2] + p[1]) * tau[2] >= (tau[2] - tau[1]) * v * p[2]

\* C22: the step lengths scaleKKTStep returns do not exceed the limits of
\* computeMaxStep, which do not exceed 1, and every positive quantity on
\* an inequality row or a bound in use keeps at least the fraction 1 - tau
\* of its value under its scaled step.
StepKeepsFractionToBoundary ==
  spc = "scaled" =>
    /\ FracLeq(scaled.alpha_x, scaled.max_x)
    /\ FracLeq(scaled.max_x, FracOne)
    /\ FracLeq(scaled.alpha_z, scaled.max_z)
    /\ FracLeq(scaled.max_z, FracOne)
    /\ scaled.alpha_x[1] > 0
    /\ scaled.alpha_z[1] > 0
    /\ kkt.use_lower =>
         /\ KeepsFraction(kkt.x - kkt.lb, scaled.p.px, kkt.tau)
         /\ KeepsFraction(kkt.zl, scaled.p.pzl, kkt.tau)
    /\ kkt.use_upper =>
         /\ KeepsFraction(kkt.ub - kkt.x,
                          <<-scaled.p.px[1], scaled.p.px[2]>>, kkt.tau)
         /\ KeepsFraction(kkt.zu, scaled.p.pzu, kkt.tau)
    /\ kkt.dense_inequality =>
         /\ KeepsFraction(kkt.s, scaled.p.ps, kkt.tau)
         /\ KeepsFraction(kkt.t, scaled.p.pt, kkt.tau)
         /\ KeepsFraction(kkt.z, scaled.p.pz, kkt.tau)
         /\ KeepsFraction(kkt.zt, scaled.p.pzt, kkt.tau)
    /\ kkt.sparse_inequality =>
         /\ KeepsFraction(kkt.sw, scaled.p.psw, kkt.tau)
         /\ KeepsFraction(kkt.zw, scaled.p.pzw, kkt.tau)

\* C22 (witness): the ratio of the limits was above 100, the longer step
\* length was cut to 100 times the shorter one, and the step of the
\* multiplier that sets the limit brings it to the fraction 1 - tau.
StepRatioWasBounded ==
  /\ spc = "scaled"
  /\ ~kkt.inexact_newton_step
  /\ scaled.ceq_step = 0
  /\ kkt.dense_inequality
  /\ FracLess(FracTimes(scaled.max_z, max_bnd, 1), scaled.max_x)
  /\ scaled.alpha_x = FracTimes(scaled.alpha_z, max_bnd, 1)
  /\ scaled.alpha_z = scaled.max_z
  /\ (kkt.z * scaled.p.pz[2] + scaled.p.pz[1]) * kkt.tau[2]
       = (kkt.tau[2] - kkt.tau[1]) * kkt.z * scaled.p.pz[2]

(***************************************************************************)
(* The GMRES subspace (SpecGmres): the calls of setGMRESSubspaceSize() on  *)
(* one solver.  A pointer is "NULL", "live" (it points to an allocation)   *)
(* or "freed" (it points to an allocation that has been deleted).          *)
(***************************************************************************)
\* The largest subspace size asked for, and the calls.
MaxSubspace == 3

MaxGmresCalls == 3

SubspaceSizes == -1..MaxSubspace

\* The release loop of setGMRESSubspaceSize: for (i = 0; i < m; i++).
ReleaseLoop(m, len) == IF m > 0 THEN m ELSE 0

\* The first part of setGMRESSubspaceSize(m): the deletion of the old
\* subspace, on the pointer states h (gmres_H) and w (gmres_W).
DeleteSubspace(m, h, w) ==
  LET n == ReleaseLoop(m, w.len)
  IN  IF h = "NULL"
      THEN [h |-> h, w |-> w,
            call |-> [NoCall EXCEPT !.m = m]]
      ELSE [h |-> "freed",
            w |-> [state |-> "freed", len |-> w.len],
            call |-> [m |-> m,
                      old |-> IF h = "live" THEN w.len ELSE 0,
                      released |-> IF h = "live" THEN Min2(n, w.len) ELSE 0,
                      outside |-> IF h = "live" THEN n > w.len ELSE n > 0,
                      freed_twice |-> h = "freed"]]

\* The solver as its constructor leaves it.
InitGmres ==
  /\ gpc = "built"
  /\ gmres_subspace_size = 0
  /\ gmres_H = "NULL"
  /\ gmres_W = [state |-> "NULL", len |-> 0]
  /\ live_vectors = 0
  /\ glast = NoCall
  /\ glog = <<>>
  /\ ParkedDriver
  /\ ParkedData
  /\ ParkedFile
  /\ ParkedLine
  /\ ParkedRanks
  /\ ParkedStep

\* setGMRESSubspaceSize(m).  A call that touches memory outside the old
\* allocation, or deletes a buffer twice, goes on or stops the program.
SetGMRESSubspaceSize ==
  /\ gpc = "built"
  /\ Len(glog) < MaxGmresCalls
  /\ \E m \in SubspaceSizes :
     \E del \in {DeleteSubspace(m, gmres_H, gmres_W)} :
       /\ glog' = Append(glog, m)
       /\ glast' = del.call
       /\ gpc' \in (IF del.call.outside \/ del.call.freed_twice
                    THEN {"built", "stopped"} ELSE {"built"})
       /\ IF m > 0
          THEN /\ gmres_subspace_size' = m
               /\ gmres_H' = "live"
               /\ gmres_W' = [state |-> "live", len |-> m + 1]
               /\ live_vectors' = live_vectors - del.call.released + (m + 1)
          ELSE /\ gmres_subspace_size' = 0
               /\ gmres_H' = del.h
               /\ gmres_W' = del.w
               /\ live_vectors' = live_vectors - del.call.released
  /\ UNCHANGED <<driverVars, dataVars, fileVars, lineVars, rankVars, stepVars>>

NextGmres == SetGMRESSubspaceSize

SpecGmres == InitGmres /\ [][NextGmres]_vars

(***************************************************************************)
(* Properties of the GMRES subspace.                                       *)
(***************************************************************************)
\* C25: every call of setGMRESSubspaceSize(m) releases each of the vectors
\* of the old subspace exactly once, touches no vector index outside the
\* old allocation and deletes no buffer twice, and leaves exactly m + 1
\* subspace vectors live when m > 0 and none otherwise.
OldSubspaceFullyDeleted ==
  (gpc = "built" /\ Len(glog) > 0) =>
    /\ glast.released = glast.old
    /\ ~glast.outside
    /\ ~glast.freed_twice
    /\ live_vectors = (IF glast.m > 0 THEN glast.m + 1 ELSE 0)

====
